---- MODULE Spec2Model ----
(***************************************************************************)
(* Model of the OpenFlow 1.0 session manager of the hybrid SDN controller  *)
(* (src/src/te_controller.cpp): the I/O loop thread OFControllerImpl::loop *)
(* with its handlers, the public operations that other threads call, and   *)
(* the switches as the environment.                                        *)
(***************************************************************************)
EXTENDS Integers, Sequences, FiniteSets, TLC

VARIABLES
  pc,        \* position of the I/O loop thread inside loop()
  mtx,       \* owner of OFControllerImpl::mtx: "free", "io" (the I/O loop thread) or "app"
  rfds,      \* the fd_set returned by select(); LISTEN stands for listen_fd
  cur,       \* last key of sw visited by the receive loop of this iteration
  closed,    \* the vector `closed` of this iteration (line 444)
  sw,        \* OFControllerImpl::sw, fd -> SwCtx
  sw_index_to_fd, \* OFControllerImpl::sw_index_to_fd, SwitchId -> fd
  exc,       \* the exception no handler caught, <<what, fd>>; NoExc while none
  sock,      \* per fd: "free", "open" (established) or "eof" (peer gone)
  rx,        \* per fd: the unread message at the head of the socket (<<m>>) or <<>>
  wire,      \* per fd: the messages the latest step wrote to the socket, in order
  first3,    \* per fd: the first messages written on the connection, up to three
  pending,   \* connections waiting in the listen backlog
  nconn,     \* connections accepted so far
  edges_,    \* TopoViewer::edges_, EdgeKey -> last_seen
  cb_error_calls, \* the calls of OFController::cb_error_ so far, <<swid, type, code>>
  te,        \* the call of the traffic engineering code in this step: operation,
             \*   arguments, result
  act,       \* the thread inside apply_beta: the calls of the controller it has
             \*   still to make, what it wrote so far, and how it ended
  poll,      \* the thread inside poll_port_stats: overload, position, result
  thr,       \* the threads TopoViewer::bg_ and Monitor::bg_ inside a pass: the
             \*   function each is in, the mutexes it holds, its locals
  now,       \* Clock::now(), in seconds
  running_,  \* TopoViewer::running_
  next,      \* the local next of the thread TopoViewer::bg_
  snap,      \* what the call of snapshot_edges() in this step returned
  last_counters_, \* Monitor::last_counters_, LinkId -> LastCounter
  last_rates_,    \* Monitor::last_rates_, LinkId -> LinkRate
  series_,        \* Monitor::series_, LinkId -> sequence of Sample
  mon_call,       \* the call of the Monitor in this step: operation, argument, result
  last_lldp,      \* the locals last_lldp and last_stats of OFControllerImpl::loop,
  last_stats,     \*   in seconds
  lldp_period_,   \* OFController::lldp_period_ and stats_period_, in seconds
  stats_period_,
  pub,            \* the public operation a calling thread is inside of, with the
                  \*   writes it has still to make under mtx; NoPub while none
  running,        \* OFControllerImpl::running
  loop_thread,    \* OFControllerImpl::loop_thread: "none" (not joinable), "live"
                  \*   (inside loop()) or "done" (loop() returned, not yet joined)
  listen_fd,      \* OFControllerImpl::listen_fd: "none" (-1) or "open"
  stopping,       \* a thread is inside OFController::stop(), at the join of line 792
  mon_running_,   \* Monitor::running_
  bg_,            \* TopoViewer::bg_ and Monitor::bg_, as loop_thread
  log             \* the calls of start() and stop() made so far: component,
                  \*   operation, what it returned (for the viewer and the monitor,
                  \*   what the exchange returned) and whether the port was free

\* the state of the session manager, and the state of the components around it
ioVars == <<pc, mtx, rfds, cur, closed, sw, sw_index_to_fd, exc, sock, rx, wire,
            first3, pending, nconn>>
viewerVars == <<edges_, now, running_, next, snap>>
monVars == <<last_counters_, last_rates_, series_, mon_call>>
timerVars == <<last_lldp, last_stats, lldp_period_, stats_period_>>
lifeVars == <<running, loop_thread, listen_fd, stopping, mon_running_, bg_, log>>
ctlVars == <<pub, lifeVars>>
miscVars == <<cb_error_calls, te, act, poll, thr, timerVars, ctlVars>>
appVars == <<viewerVars, monVars, miscVars>>
vars == <<ioVars, appVars>>

----------------------------------------------------------------------------
(* Bounds of the model *)

MaxFd == 2          \* socket descriptors available to switch connections
MaxConns == 3       \* connections the switches open in one run
MaxInFlight == 1    \* unread switch-to-controller messages at any time
MaxTime == 6        \* the second at which the clock stops
LldpPeriod == 1     \* TopoViewer::lldp_period_, in seconds
Expiry == 2         \* TopoViewer::expiry_, in seconds
MaxSamples == 2     \* samples the monitor takes of one link
CapMbps == 100      \* what Monitor::cap_mbps_ returns for every link
MaxCalls == 3       \* calls of start() and stop() in one run
MaxK == 3           \* the largest K handed to build_paths_
MaxHist == 3        \* the longest series handed to ewma_next

FDS == 1..MaxFd
LISTEN == 0          \* stands for listen_fd, which is no key of sw
NoFd == LISTEN       \* "no switch descriptor"

----------------------------------------------------------------------------
(* OpenFlow 1.0 wire constants *)

OFP_VERSION == 1
OFPT_HELLO == 0
OFPT_ERROR == 1
OFPT_ECHO_REQUEST == 2
OFPT_ECHO_REPLY == 3
OFPT_FEATURES_REQUEST == 5
OFPT_FEATURES_REPLY == 6
OFPT_GET_CONFIG_REQUEST == 7
OFPT_SET_CONFIG == 9
OFPT_PACKET_IN == 10
OFPT_PACKET_OUT == 13
OFPT_FLOW_MOD == 14
OFPT_STATS_REQUEST == 16
OFPT_STATS_REPLY == 17
OFPT_PORT_MOD == 15
OFPT_BARRIER_REQUEST == 18
OFPPC_PORT_DOWN == 1
OFPST_DESC == 0
OFPST_PORT == 4
OFPFC_ADD == 0
OFPP_NONE == 65535
OFPP_FLOOD == 65531
MissSendLen == 65535
NoBuffer == <<255, 255, 255, 255>>   \* 0xffffffff
ETH_LLDP == 35020            \* 0x88cc
SizeofHeader == 8            \* sizeof(ofp_header)
SizeofSwitchFeatures == 32   \* sizeof(ofp_switch_features)
SizeofPacketIn == 18         \* sizeof(ofp_packet_in)
SizeofStatsReply == 12       \* sizeof(ofp_stats_reply)
SizeofPortStats == 104       \* sizeof(ofp_port_stats)
MinEthFrame == 14
\* the two thresholds of the loop's timers, and the initial values of
\* OFController::lldp_period_ and stats_period_, all in seconds
LldpTimerSecs == 2
StatsTimerSecs == 3
DefaultLldpPeriod == 1
DefaultStatsPeriod == 2
MonitorPeriod == 2
MaxSeq == 10
FirstPathId == 100
LldpPorts == 4               \* the loop emits LLDP on ports 1..4
DefaultDpid == <<0, 0, 0, 0, 222, 173, 190, 239>>   \* 0xdeadbeef
NoDpid == <<0, 0, 0, 0, 0, 0, 0, 0>>

Min(a, b) == IF a < b THEN a ELSE b
SetMax(S) == CHOOSE x \in S : \A y \in S : y <= x
SetMin(S) == CHOOSE x \in S : \A y \in S : x <= y
RECURSIVE Sum(_, _)
Sum(f, S) == IF S = {} THEN 0
             ELSE LET x == CHOOSE y \in S : TRUE IN f[x] + Sum(f, S \ {x})

\* Natural numbers of any size are little-endian sequences of limbs of LimbBits
\* bits without a high zero limb (TLC's integers have 32 bits)
LimbBits == 13
Limb == 2^LimbBits
RECURSIVE Trim(_)
Trim(a) == IF a # <<>> /\ a[Len(a)] = 0 THEN Trim(SubSeq(a, 1, Len(a) - 1)) ELSE a
RECURSIVE Big(_)
Big(n) == IF n = 0 THEN <<>> ELSE <<n % Limb>> \o Big(n \div Limb)
LimbAt(a, i) == IF i \in DOMAIN a THEN a[i] ELSE 0
RECURSIVE Carry(_, _, _)
Carry(cols, i, c) ==
  IF i > Len(cols) THEN Big(c)
  ELSE <<(cols[i] + c) % Limb>> \o Carry(cols, i + 1, (cols[i] + c) \div Limb)
BigAdd(a, b) ==
  Trim(Carry([i \in 1..(IF Len(a) > Len(b) THEN Len(a) ELSE Len(b)) |->
                LimbAt(a, i) + LimbAt(b, i)], 1, 0))
BigMul(a, b) ==
  IF a = <<>> \/ b = <<>> THEN <<>>
  ELSE Trim(Carry([k \in 1..(Len(a) + Len(b) - 1) |->
                     Sum([i \in 1..Len(a) |-> a[i] * LimbAt(b, k + 1 - i)], 1..Len(a))],
                  1, 0))
RECURSIVE Borrow(_, _, _, _)
Borrow(a, b, i, br) ==
  IF i > Len(a) THEN <<>>
  ELSE LET d == a[i] - LimbAt(b, i) - br
       IN  <<(d + Limb) % Limb>> \o Borrow(a, b, i + 1, IF d < 0 THEN 1 ELSE 0)
\* a - b for a >= b
BigSub(a, b) == Trim(Borrow(a, b, 1, 0))
RECURSIVE BigLess(_, _)
BigLess(a, b) ==
  IF Len(a) # Len(b) THEN Len(a) < Len(b)
  ELSE IF a = <<>> THEN FALSE
  ELSE IF a[Len(a)] # b[Len(b)] THEN a[Len(a)] < b[Len(b)]
  ELSE BigLess(Trim(SubSeq(a, 1, Len(a) - 1)), Trim(SubSeq(b, 1, Len(b) - 1)))
RECURSIVE SmallBitLen(_)
SmallBitLen(n) == IF n = 0 THEN 0 ELSE 1 + SmallBitLen(n \div 2)
BitLen(a) == IF a = <<>> THEN 0 ELSE (Len(a) - 1) * LimbBits + SmallBitLen(a[Len(a)])
ShiftLeft(a, k) ==
  BigMul(a, [i \in 1..(k \div LimbBits + 1) |->
               IF i = k \div LimbBits + 1 THEN 2^(k % LimbBits) ELSE 0])
ShiftRight(a, k) ==
  LET q == k \div LimbBits
      r == k % LimbBits
  IN  Trim([i \in 1..(IF Len(a) > q THEN Len(a) - q ELSE 0) |->
              (LimbAt(a, i + q) \div 2^r) + (LimbAt(a, i + q + 1) % 2^r) * 2^(LimbBits - r)])
BitOf(a, i) == (LimbAt(a, i \div LimbBits + 1) \div 2^(i % LimbBits)) % 2
LowBitsZero(a, k) == ShiftLeft(ShiftRight(a, k), k) = a
\* <<a div d, a mod d>> for a small d
RECURSIVE BigDivSmall(_, _)
BigDivSmall(a, d) ==
  IF a = <<>> THEN <<<<>>, 0>>
  ELSE LET hi == BigDivSmall(SubSeq(a, 2, Len(a)), d)
           \* the limbs above the lowest leave the remainder hi[2]
           n == hi[2] * Limb + a[1]
       IN  <<Trim(<<n \div d>> \o hi[1]), n % d>>

----------------------------------------------------------------------------
(* Messages the controller writes *)

LldpDstMac == <<1, 128, 194, 0, 0, 14>>
LldpSrcMac == <<2, 0, 0, 0, 0, 1>>

build_lldp_eth(chassis_id, port_no) ==
  [dst |-> LldpDstMac, src |-> LldpSrcMac, eth_type |-> ETH_LLDP,
   chassis_id |-> chassis_id, port_id |-> port_no, ttl |-> 120]

send_hello == [type |-> OFPT_HELLO, length |-> SizeofHeader]
send_features_req == [type |-> OFPT_FEATURES_REQUEST, length |-> SizeofHeader]
send_get_config_req == [type |-> OFPT_GET_CONFIG_REQUEST, length |-> SizeofHeader]
send_set_config(flags, miss) ==
  [type |-> OFPT_SET_CONFIG, length |-> 12, flags |-> flags, miss_send_len |-> miss]

send_echo_reply_drops_payload(req, payload, len) ==
  [type |-> OFPT_ECHO_REPLY, length |-> SizeofHeader, xid |-> req.xid,
   payload |-> <<>>]
send_echo_reply(req, payload, len) ==
  [type |-> OFPT_ECHO_REPLY, length |-> SizeofHeader + len, xid |-> req.xid,
   payload |-> SubSeq(payload, 1, len)]

packet_out_lldp(out_port, dpid) ==
  [type |-> OFPT_PACKET_OUT, buffer_id |-> NoBuffer, in_port |-> OFPP_NONE,
   out_port |-> out_port, frame |-> build_lldp_eth(dpid, out_port)]

send_packet_out_with_buffer(buffer_id, in_port, out_port) ==
  [type |-> OFPT_PACKET_OUT, buffer_id |-> buffer_id, in_port |-> in_port,
   out_port |-> out_port]

send_port_stats_req(port) ==
  [type |-> OFPT_STATS_REQUEST, stype |-> OFPST_PORT, port_no |-> port]

flow_mod_l2(buffer_id, in_port, dl_dst, out_port) ==
  [type |-> OFPT_FLOW_MOD, command |-> OFPFC_ADD, cookie |-> 1,
   idle_timeout |-> 30, hard_timeout |-> 0, priority |-> 100,
   buffer_id |-> buffer_id, match_in_port |-> in_port, match_dl_dst |-> dl_dst,
   out_port |-> out_port]

----------------------------------------------------------------------------
(* Byte order: the host the controller is built for (Linux on x86-64) *)

\* A 32- or 64-bit quantity is the tuple of its bytes: a wire field in the order
\* the bytes travel, a value in the CPU most significant byte first.
HostLittleEndian == TRUE

Reverse(t) == [i \in 1..Len(t) |-> t[Len(t) + 1 - i]]

\* the value the CPU loads from a field holding the wire bytes w, and the wire
\* bytes of a field the CPU stored the value v into
load(w) == IF HostLittleEndian THEN Reverse(w) ELSE w
store(v) == IF HostLittleEndian THEN Reverse(v) ELSE v
htobe32_u(v) == IF HostLittleEndian THEN Reverse(v) ELSE v
ntohl(v) == IF HostLittleEndian THEN Reverse(v) ELSE v
Lo32(v) == SubSeq(v, 5, 8)
Hi32(v) == SubSeq(v, 1, 4)

\* line 327, from the value loaded from fr->datapath_id: each 32-bit half is
\* converted by ntohl and stays in its half
decode_dpid(raw) == ntohl(Hi32(raw)) \o ntohl(Lo32(raw))

HexPair(b) == <<b \div 16, b % 16>>
mac_to_key(m) == [i \in 1..Len(m) |-> HexPair(m[i])]

----------------------------------------------------------------------------
(* Messages the switches send *)

Dpid(n) == <<0, 0, 0, 0, 0, 0, 0, n>>
Dpids == {Dpid(1), Dpid(2)}

Msg(version, type, length, xid, body) ==
  [version |-> version, type |-> type, length |-> length, xid |-> xid, body |-> body]

NoFrame ==
  [dst |-> <<>>, src |-> <<>>, eth_type |-> 0, chassis_id |-> 0, port_id |-> 0,
   ttl |-> 0]

HelloMsg == Msg(OFP_VERSION, OFPT_HELLO, SizeofHeader, 1, [payload |-> <<>>])
\* the first four bytes of a HELLO
PartialHello == ("got" :> 4) @@ HelloMsg
\* a message of which all bytes have arrived
Whole(h) == [f \in DOMAIN h \ {"got"} |-> h[f]]
EchoMsg(x, p) ==
  Msg(OFP_VERSION, OFPT_ECHO_REQUEST, SizeofHeader + Len(p), x, [payload |-> p])
EchoMsgs == {EchoMsg(7, <<>>), EchoMsg(9, <<171, 205>>)}
FeaturesMsgs ==
  {Msg(OFP_VERSION, OFPT_FEATURES_REPLY, SizeofSwitchFeatures, 2, [datapath_id |-> d]) :
     d \in Dpids}
\* the header of a FEATURES_REPLY alone, and with the first four bytes of its
\* datapath_id
PartialFeatures ==
  {("got" :> g) @@ Msg(OFP_VERSION, OFPT_FEATURES_REPLY, SizeofSwitchFeatures, 2,
                       [datapath_id |-> <<0, 0, 1, 2, 0, 0, 0, 1>>]) :
     g \in {SizeofHeader, SizeofHeader + 4}}
\* an LLDP frame the controller emitted for the switch with wire DPID 1, port 1,
\* seen on port 2 of the receiving switch
LldpPacketIn ==
  Msg(OFP_VERSION, OFPT_PACKET_IN, SizeofPacketIn + 60, 0,
      [buffer_id |-> <<0, 0, 0, 77>>, total_len |-> 60, in_port |-> 2,
       data |-> build_lldp_eth(decode_dpid(load(Dpid(1))), 1)])
ShortPacketIn ==
  Msg(OFP_VERSION, OFPT_PACKET_IN, SizeofPacketIn, 0,
      [buffer_id |-> <<0, 0, 0, 78>>, total_len |-> 0, in_port |-> 1, data |-> NoFrame])
PortStatsMsg ==
  Msg(OFP_VERSION, OFPT_STATS_REPLY, SizeofStatsReply + SizeofPortStats, 3,
      [stype |-> OFPST_PORT,
       stats |-> <<[port_no |-> 1, rx_bytes |-> 1000, tx_bytes |-> 500]>>])
\* an OpenFlow 1.3 echo request, and an echo request whose length field says 4
BadVersionMsg == Msg(4, OFPT_ECHO_REQUEST, SizeofHeader, 7, [payload |-> <<>>])
ShortLengthMsg == Msg(OFP_VERSION, OFPT_ECHO_REQUEST, 4, 9, [payload |-> <<>>])

\* an OFPT_ERROR: header, type OFPET_BAD_REQUEST (1), code OFPBRC_BAD_STAT (2)
ErrorMsg == Msg(OFP_VERSION, OFPT_ERROR, 12, 5, [etype |-> 1, code |-> 2])

\* PACKET_INs of two hosts talking to each other: the frame of line 356 with the
\* dst (frame+0) and src (frame+6) of lines 358-359
MacA == <<0, 0, 0, 0, 0, 10>>
MacB == <<0, 0, 0, 0, 0, 11>>
EthFrame(dst, src) == [dst |-> dst, src |-> src, eth_type |-> 2048]
PktIn(buffer_id, in_port, dst, src) ==
  Msg(OFP_VERSION, OFPT_PACKET_IN, SizeofPacketIn + 60, 0,
      [buffer_id |-> buffer_id, total_len |-> 60, in_port |-> in_port,
       data |-> EthFrame(dst, src)])
\* A on port 1 to B, B on port 2 to A, and A to B again after A moved to port 2
L2Msgs == {PktIn(<<0, 0, 1, 1>>, 1, MacB, MacA), PktIn(<<0, 0, 1, 2>>, 2, MacA, MacB),
           PktIn(<<0, 0, 1, 3>>, 2, MacB, MacA), ShortPacketIn}

\* FEATURES_REPLY, STATS_REPLY and PACKET_IN whose length field announces less
\* than the fields their handlers read
ShortFeatures ==
  Msg(OFP_VERSION, OFPT_FEATURES_REPLY, SizeofHeader, 2, [datapath_id |-> <<>>])
ShortStats(length) ==
  Msg(OFP_VERSION, OFPT_STATS_REPLY, length, 3, [stype |-> OFPST_PORT, stats |-> <<>>])
TruncatedPacketIn ==
  Msg(OFP_VERSION, OFPT_PACKET_IN, SizeofPacketIn, 0,
      [buffer_id |-> <<0, 0, 0, 79>>, total_len |-> 60, in_port |-> 1, data |-> NoFrame])
ShortMsgs ==
  {ShortFeatures, ShortStats(SizeofHeader), ShortStats(SizeofHeader + 2), TruncatedPacketIn,
   HelloMsg}

\* The handlers are handed the vector `full` of h.length bytes (te_controller.cpp
\* lines 460 and 467) and read their fields at fixed offsets; what a read past the
\* end of the vector returns is whatever lies behind it on the heap.  The
\* messages a handler may see in m: m itself when every field read lies inside.
handler_views(m) ==
  CASE m.type = OFPT_FEATURES_REPLY /\ m.length < SizeofHeader + 8 ->
         {[m EXCEPT !.body = [datapath_id |-> d]] : d \in {Dpid(0), Dpid(2)}}
    [] m.type = OFPT_STATS_REPLY /\ m.length < SizeofHeader + 2 ->
         {[m EXCEPT !.body = [stype |-> t, stats |-> <<>>]] : t \in {OFPST_DESC, OFPST_PORT}}
    [] m.type = OFPT_PACKET_IN /\ m.length < SizeofPacketIn + MinEthFrame ->
         {[m EXCEPT !.body =
             [buffer_id |-> IF m.length >= 12 THEN m.body.buffer_id ELSE <<0, 0, 0, 0>>,
              total_len |-> t,
              in_port |-> IF m.length >= 16 THEN m.body.in_port ELSE 1,
              data |-> IF t >= MinEthFrame THEN f ELSE m.body.data]] :
            t \in (IF m.length >= MinEthFrame THEN {m.body.total_len} ELSE {0, 60}),
            f \in {EthFrame(MacA, MacB)}}
    [] OTHER -> {m}

\* line 344: body_len, a size_t of SizeBits bits
SizeBits == 64
body_len_clamped(length) ==
  IF length >= SizeofStatsReply THEN Big(length - SizeofStatsReply) ELSE <<>>
body_len(length) ==
  IF length >= SizeofStatsReply THEN Big(length - SizeofStatsReply)
  ELSE BigSub(ShiftLeft(Big(1), SizeBits), Big(SizeofStatsReply - length))

\* The offset behind the last byte that the handler of the message v reads, v as
\* the handler sees it: datapath_id at 8..15 (line 327); type at 8..9 and the
\* ofp_port_stats that fit in body_len (lines 343-352); total_len at 12..13 and,
\* for a total_len of 14 or more, buffer_id, in_port and the first 14 bytes of
\* data (lines 357-361, 386).  A number of any size.
read_end(v) ==
  CASE v.type = OFPT_FEATURES_REPLY -> Big(SizeofHeader + 8)
    [] v.type = OFPT_STATS_REPLY ->
         IF v.body.stype # OFPST_PORT THEN Big(SizeofHeader + 2)
         ELSE LET n == BigDivSmall(body_len(v.length), SizeofPortStats)[1]
              IN  IF n = <<>> THEN Big(SizeofHeader + 2)
                  ELSE BigAdd(Big(SizeofStatsReply), BigMul(n, Big(SizeofPortStats)))
    [] v.type = OFPT_PACKET_IN ->
         IF v.body.total_len < MinEthFrame THEN Big(SizeofHeader + 6)
         ELSE Big(SizeofPacketIn + MinEthFrame)
    [] OTHER -> Big(SizeofHeader)

\* what the switches send in Spec, and what they send in SpecPkt
SessionMsgs == {HelloMsg, BadVersionMsg, ShortLengthMsg} \cup EchoMsgs \cup FeaturesMsgs
PacketMsgs == {LldpPacketIn, ShortPacketIn, PortStatsMsg, ErrorMsg} \cup FeaturesMsgs

----------------------------------------------------------------------------
(* State *)

Range(f) == {f[x] : x \in DOMAIN f}
EmptyMap == [x \in {} |-> 0]
MapPut(f, k, v) == [x \in DOMAIN f \cup {k} |-> IF x = k THEN v ELSE f[x]]
MapErase(f, K) == [x \in DOMAIN f \ K |-> f[x]]

SwCtx(fd) == [fd |-> fd, dpid |-> NoDpid, last_ps |-> EmptyMap, mac2port |-> EmptyMap]

NoExc == <<"none", NoFd>>
NoWrites == [fd \in FDS |-> <<>>]
NoCall == [op |-> "none", arg |-> <<>>, ret |-> <<>>]
\* no call of snapshot_edges() in this step
NoSnap == [returned |-> FALSE, edges |-> {}]
NoPub == [name |-> "none", todo |-> <<>>]
NoAct == [state |-> "idle", who |-> "none", beta |-> EmptyMap, alive |-> <<>>, calls |-> <<>>,
          sent |-> <<>>]
NoPoll == [at |-> "idle"]
NoThr ==
  [viewer |-> [at |-> "idle", held |-> {}, swids |-> <<>>, ports |-> <<>>],
   monitor |-> [at |-> "idle", held |-> {}, counters |-> EmptyMap]]
InFlight == Cardinality({fd \in FDS : rx[fd] # <<>>})

\* the loop thread runs (OFController::start has returned) and no switch has connected
\* the objects as their constructors leave them
Built ==
  /\ mtx = "free" /\ rfds = {} /\ cur = NoFd /\ closed = {}
  /\ sw = EmptyMap /\ sw_index_to_fd = EmptyMap /\ exc = NoExc
  /\ sock = [fd \in FDS |-> "free"]
  /\ rx = [fd \in FDS |-> <<>>]
  /\ wire = NoWrites
  /\ first3 = [fd \in FDS |-> <<>>]
  /\ pending = 0 /\ nconn = 0
  /\ edges_ = EmptyMap
  /\ cb_error_calls = <<>> /\ te = NoCall /\ act = NoAct /\ poll = NoPoll /\ thr = NoThr
  /\ now = 0 /\ snap = NoSnap
  /\ last_counters_ = EmptyMap /\ last_rates_ = EmptyMap /\ series_ = EmptyMap
  /\ mon_call = NoCall
  /\ last_lldp = 0 /\ last_stats = 0
  /\ pub = NoPub
  /\ stopping = FALSE
\* neither the viewer nor the monitor has been started
Unstarted ==
  /\ running_ = FALSE /\ next = 0 /\ mon_running_ = FALSE
  /\ lldp_period_ = DefaultLldpPeriod /\ stats_period_ = DefaultStatsPeriod
  /\ bg_ = [c \in {"viewer", "monitor"} |-> "none"]
  /\ log = <<>>
Constructed == Built /\ Unstarted

\* OFController::start() has returned with the port bound and the loop thread at
\* the head of its first iteration
Init ==
  /\ Constructed
  /\ pc = "select" /\ running = TRUE /\ loop_thread = "live" /\ listen_fd = "open"

\* the same after TopoViewer::start() and Monitor::start() have returned
InitStarted ==
  /\ Built
  /\ pc = "select" /\ running = TRUE /\ loop_thread = "live" /\ listen_fd = "open"
  /\ running_ = TRUE /\ next = 0 /\ mon_running_ = TRUE
  /\ lldp_period_ = LldpPeriod /\ stats_period_ = MonitorPeriod
  /\ bg_ = [c \in {"viewer", "monitor"} |-> "live"]
  /\ log = <<[comp |-> "viewer", op |-> "start", ret |-> FALSE, bound |-> TRUE],
             [comp |-> "monitor", op |-> "start", ret |-> FALSE, bound |-> TRUE]>>

\* no component has been started
InitLife ==
  /\ Constructed
  /\ pc = "off" /\ running = FALSE /\ loop_thread = "none" /\ listen_fd = "none"

----------------------------------------------------------------------------
(* The switches *)

\* The loop looks at the sockets when select() returns and when it writes.  A
\* connection or a message that arrives while an iteration runs is first seen by
\* the next select(), so the switches connect and send between two iterations;
\* a close inside an iteration is first seen by the writes of the timers or by the
\* next select(), so the switches close between two iterations or before the
\* timers.

\* a switch opens a TCP connection to the listening port
Connect ==
  /\ pc = "select" /\ listen_fd = "open"
  /\ nconn + pending < MaxConns
  /\ pending + Cardinality({fd \in FDS : sock[fd] # "free"}) < MaxFd
  /\ pending' = pending + 1
  /\ wire' = NoWrites
  /\ UNCHANGED <<pc, mtx, rfds, cur, closed, sw, sw_index_to_fd, exc, sock, rx,
                 first3, nconn, appVars>>

\* a connected switch sends one message
SwitchSend(fd, m) ==
  /\ pc = "select"
  /\ sock[fd] = "open" /\ rx[fd] = <<>> /\ InFlight < MaxInFlight
  /\ rx' = [rx EXCEPT ![fd] = <<m>>]
  /\ wire' = NoWrites
  /\ UNCHANGED <<pc, mtx, rfds, cur, closed, sw, sw_index_to_fd, exc, sock,
                 first3, pending, nconn, appVars>>

\* the switch closes its end (or the connection is reset)
SwitchClose(fd) ==
  /\ pc \in {"select", "timers"}
  /\ sock[fd] = "open"
  /\ sock' = [sock EXCEPT ![fd] = "eof"]
  /\ wire' = NoWrites
  /\ UNCHANGED <<pc, mtx, rfds, cur, closed, sw, sw_index_to_fd, exc, rx,
                 first3, pending, nconn, appVars>>

----------------------------------------------------------------------------
(* send_all and what follows a failed send *)

\* send() can return <= 0 once the peer is gone; a message is written whole or
\* not at all.  The outcomes of writing n messages to fd: how many were written.
send_all(fd, n) == IF sock[fd] = "eof" THEN 0..n ELSE {n}

Head3(h, msgs) == SubSeq(h \o msgs, 1, Min(3, Len(h) + Len(msgs)))

\* the step writes the first k of msgs to fd
Wrote(fd, msgs, k) ==
  /\ wire' = [NoWrites EXCEPT ![fd] = SubSeq(msgs, 1, k)]
  /\ first3' = [first3 EXCEPT ![fd] = Head3(@, SubSeq(msgs, 1, k))]

\* fewer than all n written: send_all threw std::runtime_error (line 216), which
\* nothing in the thread catches, so std::terminate ends the process
Thrown(fd, k, n, after) ==
  IF k < n THEN pc' = "aborted" /\ exc' = <<"send failed", fd>>
           ELSE pc' = after /\ exc' = exc

\* Locking a std::mutex that the calling thread already owns is undefined
\* behaviour: the call blocks for ever (glibc's default mutex), throws
\* std::system_error (an error-checking mutex) or returns (an elided lock).
RelockOutcomes == {"deadlock", "throw", "proceed"}
lock_guard(owner) == IF mtx = owner THEN RelockOutcomes ELSE {"proceed"}

\* std::lock_guard on mtx in a thread that does not own it returns once no thread
\* owns it
lockable_always == TRUE
lockable == mtx = "free"

----------------------------------------------------------------------------
(* OFControllerImpl::loop *)

Readable(fd) == rx[fd] # <<>> \/ sock[fd] = "eof"

\* lines 423-448: build rfds from sw under the lock, select(), accept a waiting
\* connection and write the handshake to it, take the lock of the receive block
HandshakeWrongOrder ==
  <<send_features_req, send_hello, send_set_config(0, MissSendLen)>>
Handshake ==
  <<send_hello, send_features_req, send_set_config(0, MissSendLen)>>

IOSelect ==
  /\ pc = "select" /\ running /\ lockable
  /\ rfds' = {fd \in DOMAIN sw : Readable(fd)}
             \cup (IF pending > 0 THEN {LISTEN} ELSE {})
  /\ UNCHANGED <<closed, cur>>
  /\ IF pending > 0
     THEN \E cfd \in {fd \in FDS : sock[fd] = "free"}, st \in {"open", "eof"} :
            /\ sock' = [sock EXCEPT ![cfd] = st]
            /\ sw' = MapPut(sw, cfd, SwCtx(cfd))
            /\ \E k \in (IF st = "eof" THEN 0..Len(Handshake) ELSE {Len(Handshake)}) :
                 /\ wire' = [NoWrites EXCEPT ![cfd] = SubSeq(Handshake, 1, k)]
                 /\ first3' = [first3 EXCEPT ![cfd] = SubSeq(Handshake, 1, k)]
                 /\ Thrown(cfd, k, Len(Handshake), "recv")
                 /\ mtx' = (IF k < Len(Handshake) THEN "free" ELSE "io")
            /\ pending' = pending - 1
            /\ nconn' = nconn + 1
     ELSE /\ pc' = "recv" /\ mtx' = "io"
          /\ wire' = NoWrites
          /\ UNCHANGED <<sw, exc, sock, first3, pending, nconn>>
  /\ UNCHANGED <<sw_index_to_fd, rx, appVars>>

\* lines 449-451: the next key of sw whose bit is set in rfds
NextRecvFd ==
  LET S == {fd \in DOMAIN sw : fd > cur /\ fd \in rfds}
  IN  IF S = {} THEN NoFd ELSE SetMin(S)

\* a message of which only the first h.got bytes have arrived
Partial(h) == "got" \in DOMAIN h

\* lines 456 and 459
HeaderOkNoLengthCheck(h) == h.version = OFP_VERSION
HeaderOk(h) ==
  /\ Partial(h) => h.got >= SizeofHeader
  /\ h.version = OFP_VERSION /\ h.length >= SizeofHeader

\* line 464: the second recv returned m > 0; with MSG_WAITALL it returns fewer
\* bytes than asked for when the peer closes before the rest arrives
BodyOk(h) == Partial(h) => h.got > SizeofHeader

\* lines 460-463: the vector `full` after the two recv calls; its bytes start
\* as zero and the bytes that did not arrive stay zero
full(h) ==
  IF ~Partial(h) THEN h
  ELSE LET m == [f \in DOMAIN h \ {"got"} |-> h[f]]
       IN  IF h.type = OFPT_FEATURES_REPLY
           THEN [m EXCEPT !.body =
                   [datapath_id |-> [i \in 1..8 |->
                      IF SizeofHeader + i <= h.got THEN h.body.datapath_id[i] ELSE 0]]]
           ELSE m

\* lines 454-455: recv returns <= 0
RecvEof(fd) ==
  /\ rx[fd] = <<>>
  /\ closed' = closed \cup {fd} /\ cur' = fd
  /\ wire' = NoWrites
  /\ UNCHANGED <<pc, mtx, rfds, sw, sw_index_to_fd, exc, sock, rx, first3,
                 pending, nconn, appVars>>

\* lines 456-459: a header that is not OpenFlow 1.0 or announces less than itself
RecvBadHeader(fd) ==
  /\ rx[fd] # <<>> /\ ~HeaderOk(rx[fd][1])
  /\ rx' = [rx EXCEPT ![fd] = <<>>]
  /\ closed' = closed \cup {fd} /\ cur' = fd
  /\ wire' = NoWrites
  /\ UNCHANGED <<pc, mtx, rfds, sw, sw_index_to_fd, exc, sock, first3,
                 pending, nconn, appVars>>

\* lines 463-464: the peer closed after the header and no byte of the body
RecvNoBody(fd) ==
  /\ rx[fd] # <<>> /\ HeaderOk(rx[fd][1]) /\ ~BodyOk(rx[fd][1])
  /\ rx' = [rx EXCEPT ![fd] = <<>>]
  /\ closed' = closed \cup {fd} /\ cur' = fd
  /\ wire' = NoWrites
  /\ UNCHANGED <<pc, mtx, rfds, sw, sw_index_to_fd, exc, sock, first3,
                 pending, nconn, appVars>>

\* the message read by lines 453-466 when the header passes
Received(fd, type) ==
  /\ rx[fd] # <<>> /\ HeaderOk(rx[fd][1]) /\ BodyOk(rx[fd][1]) /\ rx[fd][1].type = type
  /\ rx' = [rx EXCEPT ![fd] = <<>>]
  /\ cur' = fd

\* lines 469 and 485: HELLO and every type without a case, OFPT_ERROR among them.
\* OFController::cb_error_ is never invoked (and OFController::on_error, declared
\* at of_controller.hpp line 169, has no definition), so cb_error_calls stays.
Handled == {OFPT_ECHO_REQUEST, OFPT_FEATURES_REPLY, OFPT_PACKET_IN, OFPT_STATS_REPLY}
RecvIgnored(fd) ==
  /\ rx[fd] # <<>> /\ HeaderOk(rx[fd][1]) /\ BodyOk(rx[fd][1])
  /\ rx[fd][1].type \notin Handled
  /\ rx' = [rx EXCEPT ![fd] = <<>>]
  /\ cur' = fd
  /\ wire' = NoWrites
  /\ UNCHANGED <<pc, mtx, rfds, closed, sw, sw_index_to_fd, exc, sock, first3,
                 pending, nconn, appVars>>

\* lines 470-475
RecvEcho(fd) ==
  /\ Received(fd, OFPT_ECHO_REQUEST)
  /\ LET m == rx[fd][1]
         plen == m.length - SizeofHeader
     IN  \E k \in send_all(fd, 1) :
           /\ Wrote(fd, <<send_echo_reply(m, m.body.payload, plen)>>, k)
           /\ Thrown(fd, k, 1, "recv")
  /\ UNCHANGED <<mtx, rfds, closed, sw, sw_index_to_fd, sock, pending, nconn, appVars>>

\* The handler took mtx again while loop() holds it (line 448) and never returns,
\* or std::system_error leaves the thread: std::terminate
Relocked(fd, o) ==
  /\ o \in {"deadlock", "throw"}
  /\ pc' = (IF o = "deadlock" THEN "blocked" ELSE "aborted")
  /\ exc' = (IF o = "deadlock" THEN exc ELSE <<"system_error", fd>>)
  /\ wire' = NoWrites
  /\ UNCHANGED <<mtx, rfds, closed, sw, sw_index_to_fd, sock, first3, pending,
                 nconn, appVars>>

\* lines 331-336
assign_swid_again(idx, fd) ==
  IF DOMAIN idx = {} THEN MapPut(idx, 1, fd)
  ELSE MapPut(idx, SetMax(DOMAIN idx) + 1, fd)
assign_swid(idx, fd) ==
  IF DOMAIN idx = {} THEN MapPut(idx, 1, fd)
  ELSE LET maxIdx == SetMax(DOMAIN idx)
           exists == \E k \in DOMAIN idx : idx[k] = fd
       IN  IF ~exists THEN MapPut(idx, maxIdx + 1, fd) ELSE idx

\* lines 326-340, called from line 477 with mtx held
on_features_reply(fd) ==
  /\ Received(fd, OFPT_FEATURES_REPLY)
  /\ \E fr \in handler_views(full(rx[fd][1])) :
     LET dpid == decode_dpid(load(fr.body.datapath_id))
         cfg == <<send_set_config(0, MissSendLen), send_get_config_req>>
     IN  \E o \in lock_guard("io") :
           \/ Relocked(fd, o)
           \/ /\ o = "proceed"
              /\ sw' = [sw EXCEPT ![fd].dpid = dpid]
              /\ sw_index_to_fd' = assign_swid(sw_index_to_fd, fd)
              /\ \E k \in send_all(fd, Len(cfg)) :
                   Wrote(fd, cfg, k) /\ Thrown(fd, k, Len(cfg), "recv")
              /\ UNCHANGED <<mtx, rfds, closed, sock, pending, nconn, appVars>>

\* lines 342-353, called from line 483 with mtx held
on_stats_reply(fd) ==
  /\ Received(fd, OFPT_STATS_REPLY)
  /\ \E r \in handler_views(full(rx[fd][1])) :
     LET n == Min((r.length - SizeofStatsReply) \div SizeofPortStats, Len(r.body.stats))
         ps == [i \in 1..n |-> r.body.stats[i]]
         last == [p \in DOMAIN sw[fd].last_ps \cup {ps[i].port_no : i \in 1..n} |->
                    IF \E i \in 1..n : ps[i].port_no = p
                    THEN LET i == SetMax({j \in 1..n : ps[j].port_no = p})
                         IN  [rx_bytes |-> ps[i].rx_bytes, tx_bytes |-> ps[i].tx_bytes]
                    ELSE sw[fd].last_ps[p]]
     IN  IF r.body.stype # OFPST_PORT
         THEN /\ wire' = NoWrites
              /\ UNCHANGED <<pc, mtx, rfds, closed, sw, sw_index_to_fd, exc, sock,
                             first3, pending, nconn, appVars>>
         ELSE \E o \in lock_guard("io") :
                \/ Relocked(fd, o)
                \/ /\ o = "proceed"
                   /\ r.length >= SizeofStatsReply
                   /\ sw' = [sw EXCEPT ![fd].last_ps = last]
                   /\ wire' = NoWrites
                   /\ UNCHANGED <<pc, mtx, rfds, closed, sw_index_to_fd, exc, sock,
                                  first3, pending, nconn, appVars>>
                \* body_len has wrapped around (line 344): the loop of lines
                \* 347-352 runs off the vector and the heap, and the process
                \* ends by SIGSEGV
                \/ /\ o = "proceed"
                   /\ r.length < SizeofStatsReply
                   /\ pc' = "aborted" /\ exc' = <<"SIGSEGV", fd>>
                   /\ wire' = NoWrites
                   /\ UNCHANGED <<mtx, rfds, closed, sw, sw_index_to_fd, sock, first3,
                                  pending, nconn, appVars>>

\* line 366: sw[fd].mac2port[mac_to_key(src)] = in_port
learn_keeps_first(tbl, key, port) == IF key \in DOMAIN tbl THEN tbl ELSE MapPut(tbl, key, port)
learn(tbl, key, port) == MapPut(tbl, key, port)

\* lines 355-412, called from line 480 with mtx held.  eth_type is computed at
\* line 360 and never used, and no statement invokes OFController::cb_lldp_, so
\* the handler leaves edges_ alone.
on_packet_in(fd) ==
  /\ Received(fd, OFPT_PACKET_IN)
  /\ \E v \in handler_views(full(rx[fd][1])) :
     LET pi == v.body
         frame == pi.data
         in_port == pi.in_port
         learned == learn(sw[fd].mac2port, mac_to_key(frame.src), in_port)
         out_port == IF mac_to_key(frame.dst) \in DOMAIN learned
                     THEN learned[mac_to_key(frame.dst)] ELSE -1
         \* fm.buffer_id copies the field as received; send_packet_out_with_buffer
         \* converts the received field once more with htobe32_u
         reply == IF out_port > 0 /\ out_port # in_port
                  THEN flow_mod_l2(store(load(pi.buffer_id)), in_port, frame.dst, out_port)
                  ELSE send_packet_out_with_buffer(
                         store(htobe32_u(load(pi.buffer_id))), in_port, OFPP_FLOOD)
     IN  IF pi.total_len < MinEthFrame
         THEN /\ wire' = NoWrites
              /\ UNCHANGED <<pc, mtx, rfds, closed, sw, sw_index_to_fd, exc, sock,
                             first3, pending, nconn, appVars>>
         ELSE \E o \in lock_guard("io") :
                \/ Relocked(fd, o)
                \/ /\ o = "proceed"
                   /\ sw' = [sw EXCEPT ![fd].mac2port = learned]
                   /\ \E k \in send_all(fd, 1) :
                        Wrote(fd, <<reply>>, k) /\ Thrown(fd, k, 1, "recv")
                   /\ UNCHANGED <<mtx, rfds, closed, sw_index_to_fd, sock, pending,
                                  nconn, appVars>>

\* lines 449-487: one pass of the for loop
IORecv ==
  /\ pc = "recv" /\ NextRecvFd # NoFd
  /\ ~(rx[NextRecvFd] # <<>> /\ Partial(rx[NextRecvFd][1]) /\ sock[NextRecvFd] = "open")
  /\ LET fd == NextRecvFd
     IN  \/ RecvEof(fd)
         \/ RecvBadHeader(fd)
         \/ RecvNoBody(fd)
         \/ RecvIgnored(fd)
         \/ RecvEcho(fd)
         \/ on_features_reply(fd)
         \/ on_packet_in(fd)
         \/ on_stats_reply(fd)

\* lines 492-496: what closing the sessions in cl leaves of the two maps
purge_keeps_index(cl) == <<MapErase(sw, cl), sw_index_to_fd>>
purge(cl) ==
  <<MapErase(sw, cl),
    MapErase(sw_index_to_fd, {k \in DOMAIN sw_index_to_fd : sw_index_to_fd[k] \in cl})>>

\* lines 488-497: the receive block ends, its lock_guard releases mtx, and the
\* sessions in `closed` are closed under the lock; nothing reads rfds after it
IOPurge ==
  /\ pc = "recv" /\ NextRecvFd = NoFd
  /\ sw' = purge(closed)[1]
  /\ sw_index_to_fd' = purge(closed)[2]
  /\ sock' = [fd \in FDS |-> IF fd \in closed THEN "free" ELSE sock[fd]]
  /\ rx' = [fd \in FDS |-> IF fd \in closed THEN <<>> ELSE rx[fd]]
  /\ first3' = [fd \in FDS |-> IF fd \in closed THEN <<>> ELSE first3[fd]]
  /\ pc' = "timers" /\ mtx' = "free"
  /\ rfds' = {} /\ cur' = NoFd
  /\ wire' = NoWrites
  /\ UNCHANGED <<closed, exc, pending, nconn, appVars>>

\* lines 502-505 and 510: what a due timer writes to fd
LldpRound(fd) ==
  LET dpid == IF sw[fd].dpid # NoDpid THEN sw[fd].dpid ELSE DefaultDpid
  IN  [p \in 1..LldpPorts |-> packet_out_lldp(p, dpid)]
StatsRound(fd) == <<send_port_stats_req(OFPP_NONE)>>
TimerWrites(due, fd) ==
  (IF "lldp" \in due THEN LldpRound(fd) ELSE <<>>)
  \o (IF "stats" \in due THEN StatsRound(fd) ELSE <<>>)

\* lines 501-506 and 509-511: the timers in due write to every fd of sw in key
\* order; the first failed send ends the thread; the iteration and its `closed`
\* end here
TimersFire(due) ==
  /\ LET n == (IF "lldp" \in due THEN LldpPorts ELSE 0)
              + (IF "stats" \in due THEN 1 ELSE 0)
         fail == {fd \in DOMAIN sw : \E k \in send_all(fd, n) : k < n}
     IN  \E bad \in {NoFd} \cup fail :
           \E k \in (IF bad = NoFd THEN {n} ELSE {j \in send_all(bad, n) : j < n}) :
             /\ wire' = [fd \in FDS |->
                           IF fd \in DOMAIN sw /\ (bad = NoFd \/ fd < bad)
                           THEN TimerWrites(due, fd)
                           ELSE IF fd = bad THEN SubSeq(TimerWrites(due, fd), 1, k)
                           ELSE <<>>]
             /\ first3' = [fd \in FDS |-> Head3(first3[fd], wire'[fd])]
             /\ Thrown(bad, k, n, "select")
  /\ closed' = {}
  /\ UNCHANGED <<mtx, rfds, cur, sw, sw_index_to_fd, sock, rx, pending, nconn>>

\* lines 499-512 when the clock is not looked at: any of the two timers may be due
IOTimers ==
  /\ pc = "timers" /\ lockable
  /\ \E due \in SUBSET {"lldp", "stats"} : TimersFire(due)
  /\ UNCHANGED appVars

\* lines 499-512 with the clock: the LLDP round is due more than 2 s after the
\* last one and the stats round more than 3 s after the last one, whatever
\* OFController::lldp_period_ and stats_period_ hold
IOTimersAt ==
  /\ pc = "timers" /\ lockable
  /\ LET lldp == now - last_lldp > LldpTimerSecs
         stats == now - last_stats > StatsTimerSecs
     IN  /\ TimersFire((IF lldp THEN {"lldp"} ELSE {}) \cup (IF stats THEN {"stats"} ELSE {}))
         /\ last_lldp' = (IF lldp THEN now ELSE last_lldp)
         /\ last_stats' = (IF stats THEN now ELSE last_stats)
  /\ UNCHANGED <<viewerVars, monVars, cb_error_calls, te, act, poll, thr, ctlVars, lldp_period_, stats_period_>>

IOLoop == IOSelect \/ IORecv \/ IOPurge \/ IOTimers

----------------------------------------------------------------------------
(* Public operations, called by the other threads *)

\* lines 719 and 720: the two setters store the period under OFController::mtx_
set_lldp_period(p) ==
  /\ lldp_period_' = p
  /\ wire' = NoWrites
  /\ UNCHANGED <<pc, mtx, rfds, cur, closed, sw, sw_index_to_fd, exc, sock, rx, first3,
                 pending, nconn, viewerVars, monVars, cb_error_calls, te, act, poll, thr, ctlVars, last_lldp,
                 last_stats, stats_period_>>
set_stats_period(p) ==
  /\ stats_period_' = p
  /\ wire' = NoWrites
  /\ UNCHANGED <<pc, mtx, rfds, cur, closed, sw, sw_index_to_fd, exc, sock, rx, first3,
                 pending, nconn, viewerVars, monVars, cb_error_calls, te, act, poll, thr, ctlVars, last_lldp,
                 last_stats, lldp_period_>>

\* OFController::switch_ids, lines 722-728
switch_ids == DOMAIN sw_index_to_fd

\* OFController::poll_port_stats(), lines 551-561: the map the call builds from
\* the sessions, after the requests of lines 541-545 and the wait of line 549.
\* A LinkId {u, v} is <<u, v>>; the counters are the values that be64toh gives
\* for the fields on_stats_reply stored.
poll_port_stats ==
  LET known == {swid \in switch_ids : sw_index_to_fd[swid] \in DOMAIN sw}
      eps == UNION {{<<swid, port>> : port \in DOMAIN sw[sw_index_to_fd[swid]].last_ps} :
                      swid \in known}
  IN  [k \in eps |->
         LET ps == sw[sw_index_to_fd[k[1]]].last_ps[k[2]]
         IN  [rx_bytes |-> ps.rx_bytes, tx_bytes |-> ps.tx_bytes, speedMbps |-> 0]]

----------------------------------------------------------------------------
(* TopoViewer *)

\* of_controller.hpp lines 67-70
LLDPEvent(src_swid, src_port, dst_swid, dst_port) ==
  [src_swid |-> src_swid, src_port |-> src_port, dst_swid |-> dst_swid, dst_port |-> dst_port]
\* a link seen from its two ends, a second link, and a frame that came back to
\* the switch that sent it
LldpEvents ==
  {LLDPEvent(1, 1, 2, 2), LLDPEvent(2, 2, 1, 1), LLDPEvent(2, 1, 1, 2), LLDPEvent(1, 1, 1, 2)}

\* topo_viewer.cpp lines 69-91: what the callback registered by the constructor
\* (line 21) makes of an LLDPEvent, with the identity swid_to_node mapping.  An
\* EdgeKey is <<u, v, u_port, v_port>>.
handle_lldp_no_swap(e) ==
  LET nu == e.src_swid
      nv == e.dst_swid
      k == IF nu < nv THEN <<nu, nv, e.src_port, e.dst_port>>
                      ELSE <<nv, nu, e.src_port, e.dst_port>>
  IN  IF nu = nv THEN edges_ ELSE MapPut(edges_, k, now)
handle_lldp(e) ==
  LET nu == e.src_swid
      nv == e.dst_swid
      k == IF nu < nv THEN <<nu, nv, e.src_port, e.dst_port>>
                      ELSE <<nv, nu, e.dst_port, e.src_port>>
  IN  IF nu = nv THEN edges_ ELSE MapPut(edges_, k, now)

\* lines 60-67: what prune_expired leaves of the map m at time t
prune_expired_at_expiry(m, t) == [k \in {j \in DOMAIN m : ~(t - m[j] >= Expiry)} |-> m[k]]
prune_expired(m, t) == [k \in {j \in DOMAIN m : ~(t - m[j] > Expiry)} |-> m[k]]

\* lines 93-102: one Edge per entry of edges_, whatever its age
snapshot_edges ==
  {[u |-> k[1], v |-> k[2], u_port |-> k[3], v_port |-> k[4], last_seen |-> edges_[k]] :
     k \in DOMAIN edges_}

\* lines 50-58: the LLDP frames tick_send_lldp has send_lldp (te_controller.cpp
\* lines 530-537) write to fd, one per port that ports_of returns, in port order
Sorted(S) ==
  CHOOSE q \in [1..Cardinality(S) -> S] : \A i, j \in 1..Cardinality(S) : i < j => q[i] < q[j]
tick_send_lldp(fd) ==
  IF fd \in Range(sw_index_to_fd) /\ fd \in DOMAIN sw
  THEN LET ports == Sorted(DOMAIN sw[fd].last_ps)
       IN  [i \in 1..Len(ports) |->
              packet_out_lldp(ports[i], IF sw[fd].dpid = NoDpid THEN DefaultDpid ELSE sw[fd].dpid)]
  ELSE <<>>

\* The controller invokes the callback of line 21 with the event e
HandleLldp(e) ==
  /\ edges_' = handle_lldp(e)
  /\ snap' = NoSnap
  /\ UNCHANGED <<ioVars, now, running_, next, monVars, miscVars>>

\* lines 26-43: start() up to the first test of the thread's loop
ViewerStart ==
  /\ ~running_
  /\ running_' = TRUE
  /\ next' = now
  /\ snap' = NoSnap
  /\ UNCHANGED <<ioVars, edges_, now, monVars, miscVars>>

\* lines 45-48
ViewerStop ==
  /\ running_
  /\ running_' = FALSE
  /\ snap' = NoSnap
  /\ UNCHANGED <<ioVars, edges_, now, next, monVars, miscVars>>

\* lines 33-40: a pass of the thread's loop at a time at or after next.
\* switch_ids, ports_of and send_lldp each take the controller's mtx; a send that
\* fails throws out of the thread (te_controller.cpp line 216), which ends the
\* process before prune_expired.
ViewerTick ==
  /\ running_ /\ now >= next
  /\ lockable /\ pc # "aborted"
  /\ snap' = NoSnap
  /\ LET gone == {fd \in FDS : tick_send_lldp(fd) # <<>> /\ sock[fd] = "eof"}
     IN  \/ /\ gone = {}
            /\ wire' = [fd \in FDS |-> tick_send_lldp(fd)]
            /\ first3' = [fd \in FDS |-> Head3(first3[fd], tick_send_lldp(fd))]
            /\ edges_' = prune_expired(edges_, now)
            /\ next' = now + LldpPeriod
            /\ UNCHANGED <<pc, exc>>
         \/ /\ gone # {}
            /\ pc' = "aborted" /\ exc' = <<"send failed", SetMin(gone)>>
            /\ wire' = NoWrites
            /\ UNCHANGED <<first3, edges_, next>>
  /\ UNCHANGED <<mtx, rfds, cur, closed, sw, sw_index_to_fd, sock, rx, pending, nconn,
                 now, running_, monVars, miscVars>>

\* a caller of snapshot_edges()
Snapshot ==
  /\ snap' = [returned |-> TRUE, edges |-> snapshot_edges]
  /\ UNCHANGED <<ioVars, edges_, now, running_, next, monVars, miscVars>>

\* a second passes
Advance ==
  /\ now < MaxTime
  /\ now' = now + 1
  /\ snap' = NoSnap
  /\ UNCHANGED <<ioVars, edges_, running_, next, monVars, miscVars>>

NextViewer ==
  \/ ViewerStart
  \/ ViewerStop
  \/ ViewerTick
  \/ \E e \in LldpEvents : HandleLldp(e)
  \/ Snapshot
  \/ Advance

\* the viewer with the events the controller's callback would deliver, and the
\* same with a clock that advances and a background thread that is scheduled
SpecViewer == Init /\ [][NextViewer]_vars
FairViewer == SpecViewer /\ WF_vars(ViewerTick) /\ WF_vars(Advance)

-----------------------------------------------------------------------------
(* Monitor *)

\* A rate in Mbit/s is the fraction <<numerator, denominator>>; 0.0 is <<0, 1>>
Rat(n, d) == IF n = 0 THEN <<0, 1>> ELSE <<n, d>>

\* monitor.cpp lines 12-16, with dt_sec a whole number of seconds
mbps_from_bytes_delta(dbytes, dt_sec) ==
  IF dt_sec <= 0 THEN Rat(0, 1) ELSE Rat(8 * dbytes, dt_sec * 1000000)

\* lines 62-63: the guarded difference of two uint64_t counters
delta_unguarded(new, last) == new - last
delta(new, last) == IF new >= last THEN new - last ELSE 0

\* lines 56-89: the LinkRate of the counters ps, given the entry of last_counters_
LinkRate(ps, last) ==
  LET dt == IF last.valid THEN now - last.t ELSE 0
      drx == IF last.valid THEN delta(ps.rx_bytes, last.rx_bytes) ELSE 0
      dtx == IF last.valid THEN delta(ps.tx_bytes, last.tx_bytes) ELSE 0
      rx_mbps == IF dt > 0 THEN mbps_from_bytes_delta(drx, dt) ELSE Rat(0, 1)
      tx_mbps == IF dt > 0 THEN mbps_from_bytes_delta(dtx, dt) ELSE Rat(0, 1)
      \* rx_mbps + tx_mbps, the two having the same dt
      sum == IF dt > 0 THEN mbps_from_bytes_delta(drx + dtx, dt) ELSE Rat(0, 1)
      util == IF CapMbps > 0
              THEN IF sum[1] >= CapMbps * sum[2] THEN <<1, 1>>
                   ELSE IF sum[1] <= 0 THEN Rat(0, 1) ELSE Rat(sum[1], CapMbps * sum[2])
              ELSE Rat(0, 1)
  IN  [rx_mbps |-> rx_mbps, tx_mbps |-> tx_mbps, util |-> util]

\* line 57: last_counters_[id], which a first look-up creates with valid false
LastCounter(id) ==
  IF id \in DOMAIN last_counters_ THEN last_counters_[id]
  ELSE [rx_bytes |-> 0, tx_bytes |-> 0, t |-> 0, valid |-> FALSE]

\* what poll_port_stats() hands to sample_once: counters of one or two keys, one
\* whose counters grow, then fall (rx) and jump (tx)
PollResults ==
  LET Idle == [rx_bytes |-> 0, tx_bytes |-> 0]
      Busy == [rx_bytes |-> 250000, tx_bytes |-> 125000]
      Reset == [rx_bytes |-> 125000, tx_bytes |-> 25000000]
  IN  {EmptyMap, <<1, 1>> :> Idle, <<1, 1>> :> Busy,
       (<<1, 1>> :> Reset) @@ (<<1, 2>> :> Idle), (<<1, 1>> :> Busy) @@ (<<1, 2>> :> Busy)}

\* line 94: series_[id].push_back(Sample{id, tnow, r})
push_back_over_last(vec, s) == IF vec = <<>> THEN <<s>> ELSE [vec EXCEPT ![Len(vec)] = s]
push_back(vec, s) == Append(vec, s)

\* lines 101-105 and 46-99: a sample cycle on the counters that poll_port_stats()
\* returned
compute_rates_and_update(counters) ==
  /\ \A id \in DOMAIN counters :
       id \in DOMAIN series_ => Len(series_[id]) < MaxSamples
  /\ LET Sample(id) == [id |-> id, t |-> now,
                        rate |-> LinkRate(counters[id], LastCounter(id))]
     IN  /\ last_counters_' =
               [id \in DOMAIN last_counters_ \cup DOMAIN counters |->
                  IF id \in DOMAIN counters
                  THEN [rx_bytes |-> counters[id].rx_bytes,
                        tx_bytes |-> counters[id].tx_bytes, t |-> now, valid |-> TRUE]
                  ELSE last_counters_[id]]
         /\ last_rates_' =
               [id \in DOMAIN last_rates_ \cup DOMAIN counters |->
                  IF id \in DOMAIN counters THEN Sample(id).rate ELSE last_rates_[id]]
         /\ series_' =
               [id \in DOMAIN series_ \cup DOMAIN counters |->
                  IF id \in DOMAIN counters
                  THEN push_back(IF id \in DOMAIN series_ THEN series_[id] ELSE <<>>,
                                 Sample(id))
                  ELSE series_[id]]
         /\ mon_call' = [op |-> "sample_once", arg |-> counters,
                         ret |-> {Sample(id) : id \in DOMAIN counters}]
sample_once(counters) ==
  /\ compute_rates_and_update(counters)
  /\ UNCHANGED <<ioVars, viewerVars, miscVars>>

\* lines 169-172
last_rates_snapshot ==
  /\ mon_call' = [op |-> "last_rates_snapshot", arg |-> <<>>, ret |-> last_rates_]
  /\ UNCHANGED <<ioVars, viewerVars, miscVars, last_counters_, last_rates_, series_>>

\* lines 174-179
timeseries(id) ==
  /\ mon_call' = [op |-> "timeseries", arg |-> id,
                  ret |-> IF id \in DOMAIN series_ THEN series_[id] ELSE <<>>]
  /\ UNCHANGED <<ioVars, viewerVars, miscVars, last_counters_, last_rates_, series_>>

\* lines 181-205: the rows written for each link, the last max_points_per_link
\* of its series when that is positive and the series is longer
export_csv(max_points_per_link) ==
  /\ mon_call' =
       [op |-> "export_csv", arg |-> max_points_per_link,
        ret |-> [id \in DOMAIN series_ |->
                   LET vec == series_[id]
                       start == IF max_points_per_link > 0 /\ Len(vec) > max_points_per_link
                                THEN Len(vec) - max_points_per_link ELSE 0
                   IN  SubSeq(vec, start + 1, Len(vec))]]
  /\ UNCHANGED <<ioVars, viewerVars, miscVars, last_counters_, last_rates_, series_>>

\* a second passes between two calls
MonitorAdvance ==
  /\ now < MaxTime
  /\ now' = now + 1
  /\ mon_call' = NoCall
  /\ UNCHANGED <<ioVars, edges_, running_, next, snap, miscVars,
                 last_counters_, last_rates_, series_>>

NextMonitor ==
  \/ \E counters \in PollResults : sample_once(counters)
  \/ last_rates_snapshot
  \/ \E id \in {<<1, 1>>, <<2, 1>>} : timeseries(id)
  \/ \E cap \in 0..1 : export_csv(cap)
  \/ MonitorAdvance

\* the monitor with the counters the controller would hand it
SpecMonitor == Init /\ [][NextMonitor]_vars

-----------------------------------------------------------------------------
(* Public operations that write to a switch *)

\* te_controller.cpp lines 257-261
send_barrier == [type |-> OFPT_BARRIER_REQUEST]

\* lines 180-186
advertise_mask_for_speed(speedMbps) ==
  IF speedMbps >= 10000 THEN 64
  ELSE IF speedMbps >= 1000 THEN 32
  ELSE IF speedMbps >= 100 THEN 8
  ELSE IF speedMbps >= 10 THEN 2 ELSE 0

\* lines 775-783: the ofp_port_mod of port_mod
of_port_mod(port_no, up, speedMbps) ==
  [type |-> OFPT_PORT_MOD, port_no |-> port_no,
   config |-> IF up THEN 0 ELSE OFPPC_PORT_DOWN, mask |-> OFPPC_PORT_DOWN,
   advertise |-> advertise_mask_for_speed(speedMbps)]

\* lines 600-630: the ofp_flow_mod of flow_mod for a match on in_port and an
\* action output:out_port; 4 is OFPFC_DELETE_STRICT
of_flow_mod(in_port, out_port, priority, add) ==
  [type |-> OFPT_FLOW_MOD, command |-> IF add THEN OFPFC_ADD ELSE 4, cookie |-> 4660,
   idle_timeout |-> 0, hard_timeout |-> 0, priority |-> priority, buffer_id |-> NoBuffer,
   match_in_port |-> in_port, out_port |-> OFPP_NONE,
   actions |-> IF add THEN <<out_port>> ELSE <<>>]

\* lines 647-662: the ofp_packet_out of packet_out
of_packet_out(out_port, eth) ==
  [type |-> OFPT_PACKET_OUT, buffer_id |-> NoBuffer, in_port |-> OFPP_NONE,
   out_port |-> out_port, frame |-> eth]

\* The writes <<fd, message>> that the operation o makes while it holds mtx, in
\* order: send_lldp (lines 530-537), poll_port_stats() (541-545), flow_mod
\* (634-637), packet_out (642-662), barrier (665-670), port_mod (769-786)
op_writes_by_fd(o) ==
  IF o.name = "poll_port_stats"
  THEN [i \in 1..Cardinality(DOMAIN sw) |->
          <<Sorted(DOMAIN sw)[i], send_port_stats_req(OFPP_NONE)>>]
  ELSE IF o.swid \notin DOMAIN sw THEN <<>>
  ELSE LET fd == o.swid
           dpid == IF sw[fd].dpid # NoDpid THEN sw[fd].dpid ELSE DefaultDpid
       IN  CASE o.name = "send_lldp" -> <<<<fd, packet_out_lldp(o.port, dpid)>>>>
             [] o.name = "flow_mod" ->
                  <<<<fd, of_flow_mod(o.port, o.out_port, o.priority, o.add)>>,
                    <<fd, send_barrier>>>>
             [] o.name = "packet_out" -> <<<<fd, of_packet_out(o.port, o.eth)>>>>
             [] o.name = "barrier" -> <<<<fd, send_barrier>>>>
             [] o.name = "port_mod" ->
                  <<<<fd, of_port_mod(o.port, o.up, o.speedMbps)>>, <<fd, send_barrier>>>>
op_writes(o) ==
  IF o.name = "poll_port_stats"
  THEN [i \in 1..Cardinality(DOMAIN sw) |->
          <<Sorted(DOMAIN sw)[i], send_port_stats_req(OFPP_NONE)>>]
  ELSE IF o.swid \notin DOMAIN sw_index_to_fd THEN <<>>
  ELSE LET fd == sw_index_to_fd[o.swid]
           dpid == IF fd \in DOMAIN sw /\ sw[fd].dpid # NoDpid THEN sw[fd].dpid
                   ELSE DefaultDpid
       IN  CASE o.name = "send_lldp" -> <<<<fd, packet_out_lldp(o.port, dpid)>>>>
             [] o.name = "flow_mod" ->
                  <<<<fd, of_flow_mod(o.port, o.out_port, o.priority, o.add)>>,
                    <<fd, send_barrier>>>>
             [] o.name = "packet_out" -> <<<<fd, of_packet_out(o.port, o.eth)>>>>
             [] o.name = "barrier" -> <<<<fd, send_barrier>>>>
             [] o.name = "port_mod" ->
                  <<<<fd, of_port_mod(o.port, o.up, o.speedMbps)>>, <<fd, send_barrier>>>>

\* the calls the other threads make
PublicOps ==
  {[name |-> "poll_port_stats"]}
  \cup {[name |-> "send_lldp", swid |-> s, port |-> 1] : s \in 1..2}
  \cup {[name |-> "flow_mod", swid |-> s, port |-> 1, out_port |-> 2, priority |-> 100,
         add |-> TRUE] : s \in 1..2}
  \cup {[name |-> "packet_out", swid |-> s, port |-> 1, eth |-> EthFrame(MacA, MacB)] :
          s \in 1..2}
  \cup {[name |-> "barrier", swid |-> s] : s \in 1..2}
  \cup {[name |-> "port_mod", swid |-> s, port |-> 1, up |-> FALSE, speedMbps |-> 0] :
          s \in 1..2}

\* A thread other than the I/O loop enters the operation o: its lock_guard takes
\* mtx, the look-up finds the socket, and the lock is kept for the writes (it is
\* released at once when there is nothing to write)
PublicCall(o) ==
  /\ pc # "aborted" /\ pub = NoPub
  /\ lockable
  /\ pub' = (IF op_writes(o) = <<>> THEN NoPub ELSE [name |-> o.name, todo |-> op_writes(o)])
  /\ mtx' = (IF op_writes(o) = <<>> THEN mtx ELSE "app")
  /\ wire' = NoWrites
  /\ UNCHANGED <<pc, rfds, cur, closed, sw, sw_index_to_fd, exc, sock, rx, first3,
                 pending, nconn, viewerVars, monVars, cb_error_calls, te, act, poll, thr, timerVars, lifeVars>>

\* apply_beta after the write of m to fd inside one of its calls: nothing in
\* apply_beta catches what send_all throws, so a failed write ends it with its
\* remaining calls not made; it returns after the last write of its last call
after_send(fd, m, k, rest) ==
  IF act.state # "running" THEN act
  ELSE [act EXCEPT !.sent = IF k = 0 THEN @ ELSE Append(@, <<fd, m>>),
                   !.state = IF k = 0 THEN "thrown"
                             ELSE IF rest = <<>> /\ act.calls = <<>> THEN "returned"
                             ELSE @]

\* The thread inside the operation makes its next write.  A failed send throws out
\* of the operation to its caller (line 216); the return or the throw after the
\* last write releases mtx.
PublicSend ==
  /\ pc # "aborted" /\ pub # NoPub
  /\ LET fd == Head(pub.todo)[1]
         m == Head(pub.todo)[2]
         rest == Tail(pub.todo)
     IN  \E k \in send_all(fd, 1) :
           /\ Wrote(fd, <<m>>, k)
           /\ exc' = (IF k = 0 THEN <<"send failed", fd>> ELSE exc)
           /\ pub' = (IF k = 0 \/ rest = <<>> THEN NoPub ELSE [pub EXCEPT !.todo = rest])
           /\ mtx' = (IF k = 0 \/ rest = <<>> THEN "free" ELSE mtx)
           /\ act' = after_send(fd, m, k, rest)
  /\ UNCHANGED <<pc, rfds, cur, closed, sw, sw_index_to_fd, sock, rx, pending, nconn,
                 viewerVars, monVars, cb_error_calls, te, poll, thr, timerVars, lifeVars>>

-----------------------------------------------------------------------------
(* Actuator::apply_beta and HybridSDNApp::apply_beta_ *)

\* actuator.cpp line 8
mk_edge(a, b) == IF a > b THEN <<b, a>> ELSE <<a, b>>

\* actuator.cpp lines 14-22 and HybridSDNApp.hpp lines 181-189: the maps ports and
\* sw_of_node (nodes) after the loop over the vector alive, a later edge of a
\* link replacing an earlier one.  Actuator swaps the two ports of an edge with
\* u > v and keeps its nodes as they are; HybridSDNApp swaps both.
edge_maps(who, alive) ==
  [id \in {mk_edge(alive[i].u, alive[i].v) : i \in DOMAIN alive} |->
     LET e == alive[SetMax({i \in DOMAIN alive : mk_edge(alive[i].u, alive[i].v) = id})]
         swapped == e.u > e.v
     IN  [ports |-> IF swapped THEN <<e.v_port, e.u_port>> ELSE <<e.u_port, e.v_port>>,
          nodes |-> IF swapped /\ who = "HybridSDNApp" THEN <<e.v, e.u>> ELSE <<e.u, e.v>>]]

\* the keys of plan.beta in the order of LinkId::operator< (models.hpp line 11)
sorted_links(S) ==
  CHOOSE q \in [1..Cardinality(S) -> S] :
    \A i, j \in 1..Cardinality(S) :
      i < j => (q[i][1] < q[j][1] \/ (q[i][1] = q[j][1] /\ q[i][2] < q[j][2]))

\* lines 33-38 of actuator.cpp (HybridSDNApp.hpp lines 200-204): the calls of the
\* controller for the link id; 10000 is the speed of a link switched on
link_calls_no_speed(who, id, beta, m) ==
  LET up == beta = 1
      pm(n) == [name |-> "port_mod", swid |-> m.nodes[n], port |-> m.ports[n], up |-> up,
                speedMbps |-> 0]
  IN  <<pm(1), pm(2)>>
      \o (IF who = "Actuator"
          THEN <<[name |-> "barrier", swid |-> m.nodes[1]],
                 [name |-> "barrier", swid |-> m.nodes[2]]>>
          ELSE <<>>)
link_calls(who, id, beta, m) ==
  LET up == beta = 1
      speed == IF up THEN 10000 ELSE 0
      pm(n) == [name |-> "port_mod", swid |-> m.nodes[n], port |-> m.ports[n], up |-> up,
                speedMbps |-> speed]
  IN  <<pm(1), pm(2)>>
      \o (IF who = "Actuator"
          THEN <<[name |-> "barrier", swid |-> m.nodes[1]],
                 [name |-> "barrier", swid |-> m.nodes[2]]>>
          ELSE <<>>)

\* lines 24-39 (HybridSDNApp.hpp lines 191-205): the calls apply_beta makes, in
\* order, when none of them throws; a link of the plan without an edge in alive
\* is skipped
RECURSIVE calls_from(_, _, _, _)
calls_from(who, beta, maps, ids) ==
  IF ids = <<>> THEN <<>>
  ELSE (IF Head(ids) \in DOMAIN maps
        THEN link_calls(who, Head(ids), beta[Head(ids)], maps[Head(ids)])
        ELSE <<>>)
       \o calls_from(who, beta, maps, Tail(ids))
apply_beta(who, beta, alive) ==
  calls_from(who, beta, edge_maps(who, alive), sorted_links(DOMAIN beta))

\* the edges snapshot_edges() can return between the switches 1, 2 and 3 (u < v,
\* topo_viewer.cpp lines 78-84) and the plans over their links
Edge(u, v, u_port, v_port) ==
  [u |-> u, v |-> v, u_port |-> u_port, v_port |-> v_port, last_seen |-> 0]
Applications ==
  {[beta |-> (<<1, 2>> :> 0) @@ (<<1, 3>> :> 1) @@ (<<2, 3>> :> 1),
    alive |-> <<Edge(1, 2, 1, 2), Edge(1, 2, 2, 1), Edge(1, 3, 3, 2)>>],
   [beta |-> (<<1, 2>> :> 1) @@ (<<2, 3>> :> 0),
    alive |-> <<Edge(1, 2, 2, 2)>>],
   [beta |-> (<<1, 2>> :> 1), alive |-> <<>>]}

\* a thread enters apply_beta with the plan beta and the edges alive
ApplyBeta(who, beta, alive) ==
  /\ pc # "aborted" /\ act.state = "idle" /\ pub = NoPub
  /\ act' = [state |-> IF apply_beta(who, beta, alive) = <<>> THEN "returned" ELSE "running",
             who |-> who, beta |-> beta, alive |-> alive,
             calls |-> apply_beta(who, beta, alive), sent |-> <<>>]
  /\ wire' = NoWrites
  /\ UNCHANGED <<pc, mtx, rfds, cur, closed, sw, sw_index_to_fd, exc, sock, rx, first3,
                 pending, nconn, viewerVars, monVars, cb_error_calls, te, poll, thr, timerVars,
                 ctlVars>>

\* the thread inside apply_beta makes its next call of the controller, as
\* PublicCall; a call for a SwitchId that is not assigned returns at once
ActuatorCall ==
  /\ pc # "aborted" /\ act.state = "running" /\ pub = NoPub
  /\ lockable
  /\ LET o == Head(act.calls)
         none == op_writes(o) = <<>>
     IN  /\ pub' = (IF none THEN NoPub ELSE [name |-> o.name, todo |-> op_writes(o)])
         /\ mtx' = (IF none THEN mtx ELSE "app")
         /\ act' = [act EXCEPT !.calls = Tail(@),
                               !.state = IF none /\ Tail(act.calls) = <<>>
                                         THEN "returned" ELSE @]
  /\ wire' = NoWrites
  /\ UNCHANGED <<pc, rfds, cur, closed, sw, sw_index_to_fd, exc, sock, rx, first3,
                 pending, nconn, viewerVars, monVars, cb_error_calls, te, poll, thr, timerVars,
                 lifeVars>>

-----------------------------------------------------------------------------
(* The two overloads of OFController::poll_port_stats *)

\* te_controller.cpp lines 688-699: the map of poll_port_stats(swid) for the
\* socket fd
port_stats_of(fd) ==
  IF fd \notin DOMAIN sw THEN EmptyMap
  ELSE [port \in DOMAIN sw[fd].last_ps |->
          [rx_bytes |-> sw[fd].last_ps[port].rx_bytes,
           tx_bytes |-> sw[fd].last_ps[port].tx_bytes, speedMbps |-> 0]]

\* lines 539-545: a thread calls poll_port_stats(); under the lock it writes a
\* request to every session in key order, the first failed send throwing to the
\* caller, and it releases the lock before it sleeps
PollAllCall ==
  /\ pc # "aborted" /\ poll.at \in {"idle", "done", "thrown"} /\ pub = NoPub
  /\ lockable
  /\ LET fail == {fd \in DOMAIN sw : sock[fd] = "eof"}
         bad == IF fail = {} THEN NoFd ELSE SetMin(fail)
     IN  /\ wire' = [fd \in FDS |->
                       IF fd \in DOMAIN sw /\ (bad = NoFd \/ fd < bad)
                       THEN <<send_port_stats_req(OFPP_NONE)>> ELSE <<>>]
         /\ first3' = [fd \in FDS |-> Head3(first3[fd], wire'[fd])]
         /\ exc' = (IF bad = NoFd THEN exc ELSE <<"send failed", bad>>)
         /\ poll' = (IF bad = NoFd
                     THEN [at |-> "wait", overload |-> "all", asked |-> DOMAIN sw,
                           before |-> sw]
                     ELSE [at |-> "thrown"])
  /\ UNCHANGED <<pc, mtx, rfds, cur, closed, sw, sw_index_to_fd, sock, rx, pending, nconn,
                 viewerVars, monVars, cb_error_calls, te, act, thr, timerVars, ctlVars>>

\* lines 678-686: a thread calls poll_port_stats(swid); it returns an empty map
\* for a SwitchId that is not assigned, and else writes the request and sleeps;
\* its lock_guard of line 680 lives to the end of the function
PollOneCall(swid) ==
  /\ pc # "aborted" /\ poll.at \in {"idle", "done", "thrown"} /\ pub = NoPub
  /\ lockable
  /\ IF swid \notin DOMAIN sw_index_to_fd
     THEN /\ poll' = [at |-> "done", overload |-> "swid", ret |-> EmptyMap, fresh |-> FALSE]
          /\ wire' = NoWrites
          /\ UNCHANGED <<mtx, exc, first3>>
     ELSE LET fd == sw_index_to_fd[swid]
          IN  \E k \in send_all(fd, 1) :
                /\ Wrote(fd, <<send_port_stats_req(OFPP_NONE)>>, k)
                /\ exc' = (IF k = 0 THEN <<"send failed", fd>> ELSE exc)
                /\ poll' = (IF k = 0 THEN [at |-> "thrown"]
                            ELSE [at |-> "wait", overload |-> "swid", asked |-> {fd},
                                  before |-> sw])
                /\ mtx' = (IF k = 0 THEN mtx ELSE "app")
  /\ UNCHANGED <<pc, rfds, cur, closed, sw, sw_index_to_fd, sock, rx, pending, nconn,
                 viewerVars, monVars, cb_error_calls, te, act, thr, timerVars, ctlVars>>

\* lines 549-561 and 686-699: the sleep is over; poll_port_stats() takes the lock
\* again, and both overloads build their map from last_ps and return.  fresh:
\* some counters of a session that was asked were stored during the sleep.
PollWake ==
  /\ pc # "aborted" /\ poll.at = "wait"
  /\ IF poll.overload = "all" THEN lockable ELSE mtx = "app"
  /\ poll' = [at |-> "done", overload |-> poll.overload,
              ret |-> IF poll.overload = "all" THEN poll_port_stats
                      ELSE port_stats_of(SetMin(poll.asked)),
              fresh |-> \E fd \in poll.asked \cap DOMAIN sw :
                          fd \in DOMAIN poll.before /\ sw[fd].last_ps # poll.before[fd].last_ps]
  /\ mtx' = "free"
  /\ wire' = NoWrites
  /\ UNCHANGED <<pc, rfds, cur, closed, sw, sw_index_to_fd, exc, sock, rx, first3,
                 pending, nconn, viewerVars, monVars, cb_error_calls, te, act, thr, timerVars,
                 ctlVars>>

-----------------------------------------------------------------------------
(* start() and stop() of the three components *)

\* std::terminate ends the process
Terminate(what) == pc' = "aborted" /\ exc' = <<what, NoFd>>

\* OFController::start, lines 523-528, with the loop thread up to its first
\* test of `running` (lines 415-421); bound tells whether listen_on got the port.
\* Assigning to a std::thread that is joinable calls std::terminate.
CtlStart(bound) ==
  /\ pc # "aborted" /\ ~stopping /\ Len(log) < MaxCalls
  /\ log' = Append(log, [comp |-> "ctl", op |-> "start", ret |-> TRUE, bound |-> bound])
  /\ IF running
     THEN UNCHANGED <<pc, exc, running, loop_thread, listen_fd, last_lldp, last_stats>>
     ELSE IF loop_thread # "none"
     THEN /\ Terminate("thread assigned while joinable")
          /\ UNCHANGED <<running, loop_thread, listen_fd, last_lldp, last_stats>>
     ELSE IF bound
     THEN /\ pc' = "select" /\ running' = TRUE /\ loop_thread' = "live"
          /\ listen_fd' = "open" /\ last_lldp' = now /\ last_stats' = now
          /\ exc' = exc
     ELSE /\ pc' = "off" /\ loop_thread' = "done"
          /\ UNCHANGED <<exc, running, listen_fd, last_lldp, last_stats>>
  /\ wire' = NoWrites
  /\ UNCHANGED <<mtx, rfds, cur, closed, sw, sw_index_to_fd, sock, rx, first3, pending,
                 nconn, viewerVars, monVars, cb_error_calls, te, act, poll, thr, lldp_period_, stats_period_,
                 pub, stopping, mon_running_, bg_>>

\* OFController::stop, lines 789-791: up to the join
CtlStop ==
  /\ pc # "aborted" /\ ~stopping /\ Len(log) < MaxCalls
  /\ log' = Append(log, [comp |-> "ctl", op |-> "stop", ret |-> running, bound |-> TRUE])
  /\ IF running
     THEN /\ running' = FALSE /\ listen_fd' = "none" /\ pending' = 0
          /\ stopping' = TRUE
     ELSE UNCHANGED <<running, listen_fd, pending, stopping>>
  /\ wire' = NoWrites
  /\ UNCHANGED <<pc, mtx, rfds, cur, closed, sw, sw_index_to_fd, exc, sock, rx, first3,
                 nconn, viewerVars, monVars, cb_error_calls, te, act, poll, thr, timerVars, pub, loop_thread,
                 mon_running_, bg_>>

\* lines 792-795: the join returns once loop() has returned, then the sessions
\* are closed under mtx
CtlStopJoin ==
  /\ pc # "aborted" /\ stopping
  /\ loop_thread # "live" /\ lockable
  /\ loop_thread' = "none" /\ stopping' = FALSE
  /\ sock' = [fd \in FDS |-> IF fd \in DOMAIN sw THEN "free" ELSE sock[fd]]
  /\ rx' = [fd \in FDS |-> IF fd \in DOMAIN sw THEN <<>> ELSE rx[fd]]
  /\ first3' = [fd \in FDS |-> IF fd \in DOMAIN sw THEN <<>> ELSE first3[fd]]
  /\ sw' = EmptyMap /\ sw_index_to_fd' = EmptyMap
  /\ wire' = NoWrites
  /\ UNCHANGED <<pc, mtx, rfds, cur, closed, exc, pending, nconn, viewerVars, monVars,
                 cb_error_calls, te, act, poll, thr, timerVars, pub, running, listen_fd, mon_running_, bg_,
                 log>>

\* line 421: the loop thread finds `running` false at the head of an iteration
\* and returns
LoopExit ==
  /\ pc = "select" /\ ~running
  /\ pc' = "off" /\ loop_thread' = "done"
  /\ wire' = NoWrites
  /\ UNCHANGED <<mtx, rfds, cur, closed, sw, sw_index_to_fd, exc, sock, rx, first3,
                 pending, nconn, viewerVars, monVars, cb_error_calls, te, act, poll, thr, timerVars, pub,
                 running, listen_fd, stopping, mon_running_, bg_, log>>

\* lines 453-454 and 463: recv with MSG_WAITALL returns when the bytes asked for
\* have all arrived, or the peer has closed; until then the thread waits in it,
\* inside the lock_guard of line 448
WouldBlock(fd) == rx[fd] # <<>> /\ Partial(rx[fd][1]) /\ sock[fd] = "open"
RecvBlock ==
  /\ pc = "recv" /\ NextRecvFd # NoFd /\ WouldBlock(NextRecvFd)
  /\ pc' = "stalled"
  /\ wire' = NoWrites
  /\ UNCHANGED <<mtx, rfds, cur, closed, sw, sw_index_to_fd, exc, sock, rx, first3,
                 pending, nconn, appVars>>

\* the switch the loop waits for sends the rest of its message, or closes
SwitchResume(closes) ==
  /\ pc = "stalled"
  /\ IF closes
     THEN sock' = [sock EXCEPT ![NextRecvFd] = "eof"] /\ rx' = rx
     ELSE rx' = [rx EXCEPT ![NextRecvFd] = <<Whole(rx[NextRecvFd][1])>>] /\ sock' = sock
  /\ pc' = "recv"
  /\ wire' = NoWrites
  /\ UNCHANGED <<mtx, rfds, cur, closed, sw, sw_index_to_fd, exc, first3, pending,
                 nconn, appVars>>

\* topo_viewer.cpp lines 26-43 and monitor.cpp lines 107-127: start() on the flag
\* r = running_ and the handle t = bg_; exchange(true) returns the old flag
bg_start_unguarded(r, t) == <<TRUE, IF t = "none" THEN "live" ELSE "terminate">>
bg_start(r, t) ==
  IF r THEN <<r, t>> ELSE <<TRUE, IF t = "none" THEN "live" ELSE "terminate">>

\* topo_viewer.cpp lines 45-48 and monitor.cpp lines 129-132: stop(); the thread
\* leaves its loop at its next test of running_, and the join returns
bg_stop(r, t) == IF ~r THEN <<r, t>> ELSE <<FALSE, "none">>

\* a call of start() or stop() of the viewer or the monitor.  start() hands the
\* component's period to the controller (topo_viewer.cpp line 29, monitor.cpp
\* line 110) and the new thread sets its local next (line 32).
BgCall(c, op) ==
  /\ pc # "aborted" /\ Len(log) < MaxCalls
  /\ LET r == IF c = "viewer" THEN running_ ELSE mon_running_
         res == IF op = "start" THEN bg_start(r, bg_[c]) ELSE bg_stop(r, bg_[c])
         started == op = "start" /\ ~r
     IN  /\ log' = Append(log, [comp |-> c, op |-> op, ret |-> r, bound |-> TRUE])
         /\ IF res[2] = "terminate"
            THEN /\ Terminate("thread assigned while joinable")
                 /\ UNCHANGED <<running_, mon_running_, bg_, next, lldp_period_,
                                stats_period_>>
            ELSE /\ running_' = (IF c = "viewer" THEN res[1] ELSE running_)
                 /\ mon_running_' = (IF c = "monitor" THEN res[1] ELSE mon_running_)
                 /\ bg_' = [bg_ EXCEPT ![c] = res[2]]
                 /\ next' = (IF started /\ c = "viewer" THEN now ELSE next)
                 /\ lldp_period_' =
                      (IF started /\ c = "viewer" THEN LldpPeriod ELSE lldp_period_)
                 /\ stats_period_' =
                      (IF started /\ c = "monitor" THEN MonitorPeriod ELSE stats_period_)
                 /\ UNCHANGED <<pc, exc>>
  /\ wire' = NoWrites
  /\ UNCHANGED <<mtx, rfds, cur, closed, sw, sw_index_to_fd, sock, rx, first3, pending,
                 nconn, edges_, now, snap, monVars, cb_error_calls, te, act, poll, thr, last_lldp, last_stats,
                 pub, running, loop_thread, listen_fd, stopping>>

-----------------------------------------------------------------------------
(* The threads TopoViewer::bg_ and Monitor::bg_, one lock at a time *)

Threads == {"viewer", "monitor"}

\* OFController::ports_of, lines 730-742
ports_of(swid) ==
  IF swid \in DOMAIN sw_index_to_fd /\ sw_index_to_fd[swid] \in DOMAIN sw
  THEN Sorted(DOMAIN sw[sw_index_to_fd[swid]].last_ps) ELSE <<>>

\* OFController::switch_info, lines 744-768: the optional as a set of at most one
\* SwitchInfo
switch_info(swid) ==
  IF swid \notin DOMAIN sw_index_to_fd \/ sw_index_to_fd[swid] \notin DOMAIN sw THEN {}
  ELSE LET c == sw[sw_index_to_fd[swid]]
       IN  {[swid |-> swid, dpid |-> c.dpid, connected |-> TRUE,
             ports |-> [p \in DOMAIN c.last_ps |->
                          [port_no |-> p, up |-> TRUE, curr_speedMbps |-> 0,
                           last |-> [rx_bytes |-> c.last_ps[p].rx_bytes,
                                     tx_bytes |-> c.last_ps[p].tx_bytes,
                                     speedMbps |-> 0]]]]}

\* a thread calls ports_of or switch_info: the lock_guard, the look-ups and the
\* result
Query(name, swid) ==
  /\ pc # "aborted" /\ pub = NoPub /\ lockable
  /\ te' = [op |-> name, arg |-> swid,
            ret |-> IF name = "ports_of" THEN ports_of(swid) ELSE switch_info(swid)]
  /\ wire' = NoWrites
  /\ UNCHANGED <<pc, mtx, rfds, cur, closed, sw, sw_index_to_fd, exc, sock, rx, first3,
                 pending, nconn, viewerVars, monVars, cb_error_calls, act, poll, thr,
                 timerVars, ctlVars>>

\* the functions a pass of each thread goes through (topo_viewer.cpp lines
\* 36-37 and 50-67, monitor.cpp lines 101-105); poll_port_stats() has two lock
\* scopes, lines 541-544 and 547-561
ViewerFns == {"switch_ids", "ports_of", "send_lldp", "prune_expired"}
CtlFns == {"switch_ids", "ports_of", "send_lldp", "poll_requests", "poll_read"}

\* the mutex of its own object that a thread holds inside f: the lock_guards of
\* topo_viewer.cpp line 62 and of monitor.cpp line 52
own_mutex_whole_pass(f) ==
  IF f = "idle" THEN {} ELSE IF f \in ViewerFns THEN {"viewer"} ELSE {"monitor"}
own_mutex(f) ==
  CASE f = "prune_expired" -> {"viewer"}
    [] f = "compute_rates_and_update" -> {"monitor"}
    [] OTHER -> {}
\* the mutexes a thread holds while it runs the body of f
needs(f) == own_mutex(f) \cup (IF f \in CtlFns THEN {"ctl"} ELSE {})

\* the thread that owns mutex l
Holder(l) ==
  IF l = "ctl" /\ mtx = "io" THEN "io"
  ELSE IF \E t \in Threads : l \in thr[t].held
       THEN CHOOSE t \in Threads : l \in thr[t].held
       ELSE IF l = "ctl" /\ mtx = "app" THEN "caller" ELSE "none"

\* the mutex thread t locks next: that of its own object first, as the
\* lock_guard of the caller precedes the one inside the controller
Wanted(t) ==
  LET missing == needs(thr[t].at) \ thr[t].held
  IN  IF missing = {} THEN "none"
      ELSE IF missing # {"ctl"} THEN CHOOSE l \in missing : l # "ctl" ELSE "ctl"

\* the thread t takes the next mutex of the function it is in
ThreadLock(t) ==
  /\ pc # "aborted" /\ Wanted(t) # "none" /\ Holder(Wanted(t)) = "none"
  /\ thr' = [thr EXCEPT ![t].held = @ \cup {Wanted(t)}]
  /\ mtx' = (IF Wanted(t) = "ctl" THEN "app" ELSE mtx)
  /\ wire' = NoWrites
  /\ UNCHANGED <<pc, rfds, cur, closed, sw, sw_index_to_fd, exc, sock, rx, first3,
                 pending, nconn, viewerVars, monVars, cb_error_calls, te, act, poll,
                 timerVars, ctlVars>>

\* topo_viewer.cpp lines 33-36 and monitor.cpp lines 114-118: the thread finds
\* its time has come and enters tick_send_lldp or sample_once
ThreadPass(t) ==
  /\ pc # "aborted" /\ thr[t].at = "idle" /\ bg_[t] = "live"
  /\ IF t = "viewer" THEN running_ /\ now >= next ELSE mon_running_
  /\ thr' = [thr EXCEPT ![t].at = IF t = "viewer" THEN "switch_ids" ELSE "poll_requests"]
  /\ wire' = NoWrites
  /\ UNCHANGED <<pc, mtx, rfds, cur, closed, sw, sw_index_to_fd, exc, sock, rx, first3,
                 pending, nconn, viewerVars, monVars, cb_error_calls, te, act, poll,
                 timerVars, ctlVars>>

\* the locks a thread keeps when it leaves the function it is in for f, and the
\* owner of the controller's mtx after that
keeps(t, f) == thr[t].held \cap own_mutex(f)
Unlocked(t) == mtx' = (IF "ctl" \in thr[t].held THEN "free" ELSE mtx)

\* topo_viewer.cpp lines 52-57: where the loops of tick_send_lldp go after the
\* switch at the head of swids has the ports `ports` left
viewer_goes(swids, ports) ==
  IF ports # <<>> THEN [at |-> "send_lldp", swids |-> swids, ports |-> ports]
  ELSE IF Len(swids) > 1 THEN [at |-> "ports_of", swids |-> Tail(swids), ports |-> <<>>]
  ELSE [at |-> "prune_expired", swids |-> <<>>, ports |-> <<>>]

ViewerGoes(r) ==
  thr' = [thr EXCEPT !.viewer = [at |-> r.at, held |-> keeps("viewer", r.at),
                                 swids |-> r.swids, ports |-> r.ports]]

\* the viewer thread, holding the locks of the function it is in, runs it and
\* releases them.  A send_lldp whose send fails throws out of the thread, which
\* ends the process.
ViewerRun ==
  LET v == thr.viewer
      f == v.at
  IN  /\ pc # "aborted" /\ f \in ViewerFns /\ needs(f) \subseteq v.held
      /\ Unlocked("viewer")
      /\ \/ /\ f = "switch_ids"
            /\ LET ids == Sorted(switch_ids)
               IN  ViewerGoes(IF ids = <<>> THEN viewer_goes(<<>>, <<>>)
                              ELSE [at |-> "ports_of", swids |-> ids, ports |-> <<>>])
            /\ wire' = NoWrites
            /\ UNCHANGED <<pc, exc, first3, edges_, next>>
         \/ /\ f = "ports_of"
            /\ ViewerGoes(viewer_goes(v.swids, ports_of(Head(v.swids))))
            /\ wire' = NoWrites
            /\ UNCHANGED <<pc, exc, first3, edges_, next>>
         \/ /\ f = "send_lldp"
            /\ LET swid == Head(v.swids)
                   fd == IF swid \in DOMAIN sw_index_to_fd THEN sw_index_to_fd[swid]
                         ELSE NoFd
               IN  IF fd \notin DOMAIN sw
                   THEN /\ ViewerGoes(viewer_goes(v.swids, Tail(v.ports)))
                        /\ wire' = NoWrites
                        /\ UNCHANGED <<pc, exc, first3>>
                   ELSE \E k \in send_all(fd, 1) :
                          /\ Wrote(fd, <<packet_out_lldp(Head(v.ports),
                                           IF sw[fd].dpid = NoDpid THEN DefaultDpid
                                           ELSE sw[fd].dpid)>>, k)
                          /\ Thrown(fd, k, 1, pc)
                          /\ ViewerGoes(IF k = 0
                                        THEN [at |-> "idle", swids |-> <<>>, ports |-> <<>>]
                                        ELSE viewer_goes(v.swids, Tail(v.ports)))
            /\ UNCHANGED <<edges_, next>>
         \/ /\ f = "prune_expired"
            /\ edges_' = prune_expired(edges_, now)
            /\ next' = now + LldpPeriod
            /\ ViewerGoes([at |-> "idle", swids |-> <<>>, ports |-> <<>>])
            /\ wire' = NoWrites
            /\ UNCHANGED <<pc, exc, first3>>
      /\ UNCHANGED <<rfds, cur, closed, sw, sw_index_to_fd, sock, rx, pending, nconn,
                     now, running_, snap, monVars, cb_error_calls, te, act, poll,
                     timerVars, ctlVars>>

MonitorGoes(f, counters) ==
  thr' = [thr EXCEPT !.monitor = [at |-> f, held |-> keeps("monitor", f),
                                  counters |-> counters]]

\* the monitor thread, holding the locks of the function it is in, runs it and
\* releases them.  The catch of monitor.cpp line 119 ends the pass when a send
\* of poll_port_stats() fails.
MonitorRun ==
  LET m == thr.monitor
      f == m.at
  IN  /\ pc # "aborted" /\ f \notin ViewerFns \cup {"idle"} /\ needs(f) \subseteq m.held
      /\ Unlocked("monitor")
      /\ \/ /\ f = "poll_requests"
            /\ LET fail == {fd \in DOMAIN sw : sock[fd] = "eof"}
                   bad == IF fail = {} THEN NoFd ELSE SetMin(fail)
               IN  /\ wire' = [fd \in FDS |->
                                 IF fd \in DOMAIN sw /\ (bad = NoFd \/ fd < bad)
                                 THEN <<send_port_stats_req(OFPP_NONE)>> ELSE <<>>]
                   /\ first3' = [fd \in FDS |-> Head3(first3[fd], wire'[fd])]
                   /\ MonitorGoes(IF bad = NoFd THEN "poll_read" ELSE "idle", EmptyMap)
            /\ UNCHANGED monVars
         \/ /\ f = "poll_read"
            /\ MonitorGoes("compute_rates_and_update", poll_port_stats)
            /\ wire' = NoWrites
            /\ UNCHANGED <<first3, monVars>>
         \/ /\ f = "compute_rates_and_update"
            /\ compute_rates_and_update(m.counters)
            /\ MonitorGoes("idle", EmptyMap)
            /\ wire' = NoWrites
            /\ UNCHANGED first3
      /\ UNCHANGED <<pc, rfds, cur, closed, sw, sw_index_to_fd, exc, sock, rx, pending,
                     nconn, viewerVars, cb_error_calls, te, act, poll, timerVars, ctlVars>>

-----------------------------------------------------------------------------
(* HybridSDNApp: the candidate paths handed to the MILP *)

\* HybridSDNApp.hpp lines 141-144: adj[n], the neighbours of n in the order the
\* edges of `alive` push them
RECURSIVE neighbours(_, _)
neighbours(alive, n) ==
  IF alive = <<>> THEN <<>>
  ELSE (IF Head(alive)[1] = n THEN <<Head(alive)[2]>> ELSE <<>>)
       \o (IF Head(alive)[2] = n THEN <<Head(alive)[1]>> ELSE <<>>)
       \o neighbours(Tail(alive), n)

\* lines 119-122: the LinkIds of the node sequence seq
path_edges_walked(seq) == [i \in 1..(Len(seq) - 1) |-> <<seq[i], seq[i + 1]>>]
path_edges(seq) ==
  [i \in 1..(Len(seq) - 1) |->
     <<Min(seq[i], seq[i + 1]), IF seq[i] > seq[i + 1] THEN seq[i] ELSE seq[i + 1]>>]

\* lines 109-136: the paths and the next id that the call leaves, from the queue
\* holding the sequence <<s>>
bfs_k_paths_(alive, s, d, K, out_paths, next_pid) ==
  LET RECURSIVE loop(_, _, _, _)
      loop(q, seen, out, pid) ==
        IF q = <<>> \/ ~(Len(out) < K) THEN <<out, pid>>
        ELSE LET front == Head(q)
                 node == front[Len(front)]
                 nbs == neighbours(alive, node)
                 fresh(nb) == \A i \in 1..Len(front) : front[i] # nb
                 ext == [i \in 1..Len(nbs) |-> Append(front, nbs[i])]
                 keep(nxt) == fresh(nxt[Len(nxt)])
             IN  IF Len(front) > MaxSeq THEN loop(Tail(q), seen, out, pid)
                 ELSE IF node = d
                 THEN IF front \notin seen
                      THEN loop(Tail(q), seen \cup {front},
                                Append(out, [id |-> pid, edges |-> path_edges(front)]),
                                pid + 1)
                      ELSE loop(Tail(q), seen, out, pid)
                 ELSE loop(Tail(q) \o SelectSeq(ext, keep), seen, out, pid)
  IN  loop(<<<<s>>>>, {}, out_paths, next_pid)

\* lines 145-146: the pairs that the flows need, the smaller node first
need_of(flows) ==
  {IF f[1] > f[2] THEN <<f[2], f[1]>> ELSE f : f \in flows}

\* lines 138-151: the pairs are visited in the order of std::set<std::pair>
build_paths_(alive, flows, K) ==
  LET first(S) == CHOOSE p \in S :
                    \A o \in S : p[1] < o[1] \/ (p[1] = o[1] /\ p[2] <= o[2])
      RECURSIVE each(_, _, _)
      each(need, paths, next_pid) ==
        IF need = {} THEN paths
        ELSE LET r == bfs_k_paths_(alive, first(need)[1], first(need)[2], K, paths,
                                   next_pid)
             IN  each(need \ {first(need)}, r[1], r[2])
  IN  each(need_of(flows), <<>>, FirstPathId)

\* the live edges that TopoViewer::snapshot_edges hands over, as <<u, v>> in the
\* order of its map: a square, a square with a diagonal, a triangle with a tail,
\* two links between the same switches, the complete graph on four switches, no
\* edge, and a line of eleven switches
Topologies ==
  {<<<<1, 2>>, <<1, 3>>, <<2, 4>>, <<3, 4>>>>,
   <<<<1, 2>>, <<1, 3>>, <<2, 3>>, <<2, 4>>, <<3, 4>>>>,
   <<<<1, 2>>, <<1, 3>>, <<2, 3>>, <<3, 4>>>>,
   <<<<1, 2>>, <<1, 2>>, <<2, 3>>, <<3, 4>>>>,
   <<<<1, 2>>, <<1, 3>>, <<1, 4>>, <<2, 3>>, <<2, 4>>, <<3, 4>>>>,
   <<>>,
   [i \in 1..10 |-> <<i, i + 1>>]}

\* the end points <<s, d>> of the flows: one or two flows
FlowEnds == {<<1, 4>>, <<4, 1>>, <<1, 3>>, <<2, 3>>, <<1, 10>>, <<1, 11>>}
FlowSets == {F \in SUBSET FlowEnds : Cardinality(F) \in 1..2}

\* a control round enumerates the candidate paths
BuildPaths(alive, flows, K) ==
  /\ te' = [op |-> "build_paths_", arg |-> [alive |-> alive, flows |-> flows, K |-> K],
            ret |-> build_paths_(alive, flows, K)]
  /\ wire' = NoWrites
  /\ UNCHANGED <<pc, mtx, rfds, cur, closed, sw, sw_index_to_fd, exc, sock, rx, first3,
                 pending, nconn, viewerVars, monVars, cb_error_calls, act, poll, thr, timerVars, ctlVars>>

-----------------------------------------------------------------------------
(* MILP_TE *)

\* An instance is the GraphCaps (capacity_mbps, is_sdn, power_cost), the paths P_
\* (id -> edges) and the flows F_ (id -> demand_mbps, cand_path_ids).  Capacities
\* and demands are whole Mbit/s, and the objective is kept in thousandths.

\* milp_te.hpp lines 37-39 and 43-48: GraphCaps::cap, sdn and power
cap(G, e) == IF e \in DOMAIN G.capacity_mbps THEN G.capacity_mbps[e] ELSE 0
sdn(G, e) == e \in DOMAIN G.is_sdn /\ G.is_sdn[e]
power(G, e) ==
  IF e \in DOMAIN G.power_cost THEN G.power_cost[e]
  ELSE IF cap(G, e) > 0 THEN cap(G, e) \div 10 ELSE 1

\* milp_te.cpp lines 166-182: the columns x_{f,p} and beta_e
x_index_(I) ==
  UNION {{<<f, p>> : p \in Range(I.flows[f].cand_path_ids)} : f \in DOMAIN I.flows}
be_index_(I) == {e \in DOMAIN I.G.capacity_mbps : sdn(I.G, e)}

\* lines 37 and 76: Df
Df(I, f) == IF I.flows[f].demand_mbps > 0 THEN I.flows[f].demand_mbps ELSE 0

\* lines 31-51: the objective of the columns x and be under the weights w, times
\* 1000
objective(I, w, x, be) ==
  LET coef == [fp \in x_index_(I) |->
                 LET per == [i \in 1..Len(I.paths[fp[2]]) |->
                               (Df(I, fp[1]) * 1000) \div cap(I.G, I.paths[fp[2]][i])]
                 IN  w.lwr * Sum(per, DOMAIN per) * x[fp]]
      pw == [e \in be_index_(I) |-> w.ewr * power(I.G, e) * 1000 * be[e]]
  IN  Sum(coef, DOMAIN coef) + Sum(pw, DOMAIN pw)

\* lines 82-91: the upper bound of the capacity row of link e, with the term
\* -Ce * beta_e of an SDN link moved to the right
row_upper_unswitched(I, e, be) == cap(I.G, e)
row_upper(I, e, be) == IF sdn(I.G, e) THEN cap(I.G, e) * be[e] ELSE cap(I.G, e)

\* lines 57-92: the rows: one path per flow, and the capacity of every link
rows_hold(I, x, be) ==
  /\ \A f \in DOMAIN I.flows :
       LET mine == [fp \in {q \in x_index_(I) : q[1] = f} |-> x[fp]]
       IN  Sum(mine, DOMAIN mine) = 1
  /\ \A e \in DOMAIN I.G.capacity_mbps :
       LET row == [fp \in {q \in x_index_(I) : e \in Range(I.paths[q[2]])} |->
                     Df(I, fp[1]) * x[fp]]
       IN  Sum(row, DOMAIN row) <= row_upper(I, e, be)

\* lines 95-112: what CbcModel::branchAndBound leaves: status() is 0 when the
\* search finished (with an optimal solution, or with the proof that there is
\* none) and 1 when the time limit stopped it (with the best solution found so
\* far, if any); bestSolution() is null when no solution was found
NoSol == <<>>
branchAndBound(I, w, time_limit_sec) ==
  LET sols == {s \in [x : [x_index_(I) -> {0, 1}], be : [be_index_(I) -> {0, 1}]] :
                 rows_hold(I, s.x, s.be)}
      best == {s \in sols : \A o \in sols :
                 objective(I, w, s.x, s.be) <= objective(I, w, o.x, o.be)}
      stopped == IF time_limit_sec > 0
                 THEN {[status |-> 1, isProvenOptimal |-> FALSE,
                        isProvenInfeasible |-> FALSE, bestSolution |-> s] :
                         s \in sols \cup {NoSol}}
                 ELSE {}
  IN  stopped \cup
      (IF sols = {}
       THEN {[status |-> 0, isProvenOptimal |-> FALSE, isProvenInfeasible |-> TRUE,
              bestSolution |-> NoSol]}
       ELSE {[status |-> 0, isProvenOptimal |-> TRUE, isProvenInfeasible |-> FALSE,
              bestSolution |-> s] : s \in best})

\* lines 124-127: the decision reported for link e
beta_decision_unforced(I, sol, e) == IF sdn(I.G, e) THEN sol.be[e] ELSE 0
beta_decision(I, sol, e) ==
  IF sdn(I.G, e) THEN (IF 2 * sol.be[e] >= 1 THEN 1 ELSE 0) ELSE 1

\* lines 114-152: what solve returns and leaves in *out (a TE_Output that the
\* caller constructed) when the model is m
solve(I, w, m) ==
  LET sol == m.bestSolution
      optimal == m.status = 0 \/ m.isProvenOptimal
      head == [optimal |-> optimal,
               objective |-> IF sol = NoSol THEN <<1, 0>>
                             ELSE Rat(objective(I, w, sol.x, sol.be), 1000),
               status_text |-> IF optimal THEN "optimal"
                               ELSE IF m.isProvenInfeasible THEN "infeasible"
                               ELSE "feasible"]
      links_ == DOMAIN I.G.capacity_mbps
      best_pid(f) ==
        LET c == I.flows[f].cand_path_ids
            i == CHOOSE i \in 1..Len(c) :
                   /\ \A j \in 1..Len(c) : sol.x[<<f, c[j]>>] <= sol.x[<<f, c[i]>>]
                   /\ \A j \in 1..(i - 1) : sol.x[<<f, c[j]>>] < sol.x[<<f, c[i]>>]
        IN  IF c = <<>> THEN -1 ELSE c[i]
      touched == links_ \cup UNION {Range(I.paths[fp[2]]) :
                                      fp \in {q \in x_index_(I) : sol.x[q] > 0}}
      load_of(e) ==
        LET on == [f \in DOMAIN I.flows |->
                     LET c == I.flows[f].cand_path_ids
                         per == [i \in 1..Len(c) |->
                                   IF sol.x[<<f, c[i]>>] > 0
                                   THEN Df(I, f) * sol.x[<<f, c[i]>>]
                                        * Cardinality({k \in 1..Len(I.paths[c[i]]) :
                                                         I.paths[c[i]][k] = e})
                                   ELSE 0]
                     IN  Sum(per, DOMAIN per)]
        IN  Sum(on, DOMAIN on)
  IN  IF sol = NoSol
      THEN [returned |-> FALSE,
            out |-> head @@ [beta |-> EmptyMap, chosen_path |-> EmptyMap,
                             load_mbps |-> EmptyMap]]
      ELSE [returned |-> TRUE,
            out |-> head @@ [beta |-> [e \in links_ |-> beta_decision(I, sol, e)],
                             chosen_path |-> [f \in DOMAIN I.flows |-> best_pid(f)],
                             load_mbps |-> [e \in touched |-> load_of(e)]]]

\* The instances: two flows from node 1 to node 3 over the square 1-2-3, 1-4-3,
\* with the two two-hop paths as candidates, every link of 1000 Mbit/s and power
\* cost 100; the links of the second path, or all links, may be legacy links.
Square == {<<1, 2>>, <<2, 3>>, <<1, 4>>, <<3, 4>>}
Instance(legacy, d1, d2) ==
  [G |-> [capacity_mbps |-> [e \in Square |-> 1000],
          is_sdn |-> [e \in Square |-> e \notin legacy],
          power_cost |-> [e \in Square |-> 100]],
   paths |-> (100 :> <<<<1, 2>>, <<2, 3>>>>) @@ (101 :> <<<<1, 4>>, <<3, 4>>>>),
   flows |-> (1 :> [demand_mbps |-> d1, cand_path_ids |-> <<100, 101>>])
             @@ (2 :> [demand_mbps |-> d2, cand_path_ids |-> <<100, 101>>])]
Demands == {200, 600, 1200}
Instances ==
  {Instance(legacy, d1, d2) :
     legacy \in {{}, {<<1, 4>>, <<3, 4>>}, Square}, d1 \in Demands, d2 \in Demands}
WeightSets == {[ewr |-> 0, lwr |-> 1], [ewr |-> 1, lwr |-> 0], [ewr |-> 1, lwr |-> 1]}

\* a control round solves the instance I under the weights w, once
Solve(I, w, time_limit_sec) ==
  /\ te.op # "solve"
  /\ \E m \in branchAndBound(I, w, time_limit_sec) :
       te' = [op |-> "solve", arg |-> [I |-> I, w |-> w, m |-> m], ret |-> solve(I, w, m)]
  /\ wire' = NoWrites
  /\ UNCHANGED <<pc, mtx, rfds, cur, closed, sw, sw_index_to_fd, exc, sock, rx, first3,
                 pending, nconn, viewerVars, monVars, cb_error_calls, act, poll, thr, timerVars, ctlVars>>

-----------------------------------------------------------------------------
(* Forecast: double arithmetic *)

\* A finite double that is not negative is m * 2^e with m of DoubleMantBits bits,
\* or zero.  The samples and factors of the forecast stay far from overflow and
\* from the subnormal numbers.
DoubleMantBits == 53
Zero == [m |-> <<>>, e |-> 0]
\* the double nearest to M * 2^e, ties to even (the rounding of every operation)
round(M, e) ==
  LET n == BitLen(M)
      k == n - DoubleMantBits
      q == ShiftRight(M, k)
      up == BitOf(M, k - 1) = 1 /\ (~LowBitsZero(M, k - 1) \/ BitOf(q, 0) = 1)
      r == IF up THEN BigAdd(q, Big(1)) ELSE q
  IN  IF M = <<>> THEN Zero
      ELSE IF n <= DoubleMantBits
      THEN [m |-> ShiftLeft(M, DoubleMantBits - n), e |-> e - (DoubleMantBits - n)]
      ELSE IF BitLen(r) > DoubleMantBits THEN [m |-> ShiftRight(r, 1), e |-> e + k + 1]
      ELSE [m |-> r, e |-> e + k]
\* x * y, x + y and x - y (for x >= y) of doubles
fmul(x, y) == round(BigMul(x.m, y.m), x.e + y.e)
Aligned(x, y) ==
  LET e == IF x.e < y.e THEN x.e ELSE y.e
  IN  [x |-> ShiftLeft(x.m, x.e - e), y |-> ShiftLeft(y.m, y.e - e), e |-> e]
fadd(x, y) ==
  IF x.m = <<>> THEN y
  ELSE IF y.m = <<>> THEN x
  ELSE LET a == Aligned(x, y) IN round(BigAdd(a.x, a.y), a.e)
fsub(x, y) ==
  IF y.m = <<>> THEN x
  ELSE LET a == Aligned(x, y) IN round(BigSub(a.x, a.y), a.e)
\* the double that the literal n/d denotes: the quotient correctly rounded, the
\* lowest bit of the dividend standing for a remainder that is not zero
dbl(n, d) ==
  LET qr == BigDivSmall(ShiftLeft(Big(n), 80), d)
  IN  round(BigAdd(ShiftLeft(qr[1], 1), Big(IF qr[2] = 0 THEN 0 ELSE 1)), 0 - 81)

\* forecast.cpp lines 7-14, for alpha in [0, 1] when the series has more than one
\* sample
RECURSIVE ewma_loop(_, _, _, _)
ewma_loop(hist, alpha, i, s) ==
  IF i > Len(hist) THEN s
  ELSE ewma_loop(hist, alpha, i + 1,
                 fadd(fmul(alpha, hist[i]), fmul(fsub(dbl(1, 1), alpha), s)))
ewma_next_from_zero(hist, alpha) ==
  IF hist = <<>> THEN Zero ELSE ewma_loop(hist, alpha, 1, Zero)
ewma_next(hist, alpha) ==
  IF hist = <<>> THEN Zero ELSE ewma_loop(hist, alpha, 2, hist[1])

\* the smoothing factors (Forecast::Config has 0.6, and 0.3 and 0.9 as the limits
\* of the adaptive factor) and the series handed to ewma_next, in Mbit/s
Alphas == {dbl(0, 1), dbl(3, 10), dbl(1, 2), dbl(6, 10), dbl(9, 10), dbl(1, 1)}
Samples == {dbl(1, 10), dbl(3, 1), dbl(7, 1), dbl(200, 1), dbl(123456, 1000)}
Series ==
  {<<>>}
  \cup {[i \in 1..n |-> c] : n \in 1..MaxHist, c \in Samples}
  \cup {<<dbl(3, 1), dbl(200, 1)>>, <<dbl(200, 1), dbl(1, 10), dbl(3, 1)>>}

\* a caller of ewma_next; a series of one sample or none is also handed over with
\* a factor outside [0, 1]
Ewma(hist, alpha) ==
  /\ te.op # "ewma_next"
  /\ te' = [op |-> "ewma_next", arg |-> [hist |-> hist, alpha |-> alpha],
            ret |-> ewma_next(hist, alpha)]
  /\ wire' = NoWrites
  /\ UNCHANGED <<pc, mtx, rfds, cur, closed, sw, sw_index_to_fd, exc, sock, rx, first3,
                 pending, nconn, viewerVars, monVars, cb_error_calls, act, poll, thr, timerVars, ctlVars>>

----------------------------------------------------------------------------

Switches(msgs) ==
  \/ Connect
  \/ \E fd \in FDS, m \in msgs : SwitchSend(fd, m)
  \/ \E fd \in FDS : SwitchClose(fd)

Next == Switches(SessionMsgs) \/ IOLoop
NextPkt == Switches(PacketMsgs) \/ IOLoop
NextL2 == Switches(L2Msgs) \/ IOLoop

\* the session manager with switches that connect, answer the handshake, echo,
\* send malformed headers and disconnect
Spec == Init /\ [][Next]_vars

\* the same with switches that send PACKET_IN and STATS_REPLY
SpecPkt == Init /\ [][NextPkt]_vars

\* the loop with its clock, switches that connect and disconnect, and callers of
\* the two period setters
NextTimed ==
  \/ Connect
  \/ \E fd \in FDS : SwitchClose(fd)
  \/ IOSelect
  \/ IORecv
  \/ IOPurge
  \/ IOTimersAt
  \/ Advance
  \/ \E p \in {1, 4} : set_lldp_period(p)
  \/ \E p \in {1, 4} : set_stats_period(p)
SpecTimed == Init /\ [][NextTimed]_vars

\* the same with switches that send the PACKET_INs of two hosts
SpecL2 == Init /\ [][NextL2]_vars

\* the loop, switches that connect, answer the handshake and disconnect, and
\* threads that call the public operations
NextOps ==
  \/ Switches(FeaturesMsgs)
  \/ IOLoop
  \/ \E o \in PublicOps : PublicCall(o)
  \/ PublicSend
SpecOps == Init /\ [][NextOps]_vars

\* the three components from their construction, with callers of start() and
\* stop() and with switches that connect and disconnect
NextLife ==
  \/ \E bound \in BOOLEAN : CtlStart(bound)
  \/ CtlStop
  \/ CtlStopJoin
  \/ LoopExit
  \/ \E c \in {"viewer", "monitor"}, op \in {"start", "stop"} : BgCall(c, op)
  \/ Connect
  \/ \E fd \in FDS : SwitchClose(fd)
  \/ IOLoop
SpecLife == InitLife /\ [][NextLife]_vars

\* the path enumeration on the topologies and flows above
NextPaths == \E alive \in Topologies, flows \in FlowSets, K \in 1..MaxK :
               BuildPaths(alive, flows, K)
SpecPaths == Init /\ [][NextPaths]_vars

\* the MILP on the instances above, with and without a time limit
NextTE == \E I \in Instances, w \in WeightSets, time_limit_sec \in {0, 1} :
            Solve(I, w, time_limit_sec)
SpecTE == Init /\ [][NextTE]_vars

\* the forecast on the series above
NextForecast ==
  \/ \E hist \in Series, alpha \in Alphas : Ewma(hist, alpha)
  \/ \E hist \in {h \in Series : Len(h) <= 1} : Ewma(hist, dbl(2, 1))
SpecForecast == Init /\ [][NextForecast]_vars

\* the session manager from its construction, with callers of its start() and
\* stop() and with switches that answer the handshake or send part of a message
NextStop ==
  \/ \E bound \in BOOLEAN : CtlStart(bound)
  \/ CtlStop
  \/ CtlStopJoin
  \/ LoopExit
  \/ Switches(FeaturesMsgs \cup {PartialHello})
  \/ IOLoop
  \/ RecvBlock
  \/ \E closes \in BOOLEAN : SwitchResume(closes)
SpecStop == InitLife /\ [][NextStop]_vars
\* the same with threads that are scheduled
FairStop ==
  SpecStop /\ WF_vars(IOLoop) /\ WF_vars(LoopExit) /\ WF_vars(CtlStopJoin)

\* the loop, switches that connect, answer the handshake and disconnect, and a
\* thread that applies a plan
NextAct ==
  \/ Switches(FeaturesMsgs)
  \/ IOLoop
  \/ \E who \in {"Actuator", "HybridSDNApp"}, a \in Applications :
       ApplyBeta(who, a.beta, a.alive)
  \/ ActuatorCall
  \/ PublicSend
SpecAct == Init /\ [][NextAct]_vars

\* the loop, switches that answer the handshake and the requests for port
\* statistics, and a thread that polls
NextPoll ==
  \/ Switches(FeaturesMsgs \cup {PortStatsMsg})
  \/ IOLoop
  \/ PollAllCall
  \/ \E swid \in 1..2 : PollOneCall(swid)
  \/ PollWake
SpecPoll == Init /\ [][NextPoll]_vars

\* the loop with switches that send part of a message and then stay silent,
\* send the rest, or close
NextPartial ==
  \/ Switches(FeaturesMsgs \cup PartialFeatures \cup {PartialHello})
  \/ IOLoop
  \/ RecvBlock
  \/ \E closes \in BOOLEAN : SwitchResume(closes)
SpecPartial == Init /\ [][NextPartial]_vars

FirstConnect == nconn = 0 /\ Connect
\* the loop, a switch that connects, answers the handshake and disconnects, and
\* threads that call the operations that take a SwitchId
SwidOps == {o \in PublicOps : "swid" \in DOMAIN o}
NextSwid ==
  \/ FirstConnect
  \/ \E m \in FeaturesMsgs : SwitchSend(1, m)
  \/ SwitchClose(1)
  \/ IOLoop
  \/ \E o \in SwidOps : PublicCall(o)
  \/ PublicSend
  \/ \E name \in {"ports_of", "switch_info"}, swid \in 1..2 : Query(name, swid)
  \/ \E swid \in 1..2 : PollOneCall(swid)
  \/ PollWake
SpecSwid == Init /\ [][NextSwid]_vars

\* the loop, a switch that answers the handshake and the requests for port
\* statistics, and the threads of a started viewer and a started monitor
NextLocks ==
  \/ FirstConnect
  \/ \E m \in FeaturesMsgs \cup {PortStatsMsg} : SwitchSend(1, m)
  \/ SwitchClose(1)
  \/ IOLoop
  \/ \E t \in Threads : ThreadPass(t)
  \/ \E t \in Threads : ThreadLock(t)
  \/ ViewerRun
  \/ MonitorRun
SpecLocks == InitStarted /\ [][NextLocks]_vars

\* the session manager with switches that send messages shorter than what their
\* handlers read
NextShort == Switches(ShortMsgs) \/ IOLoop
SpecShort == Init /\ [][NextShort]_vars

----------------------------------------------------------------------------
(* Properties *)

\* this step is the pass of the receive loop over fd (lines 449-487)
RecvStep(fd) == pc = "recv" /\ cur # fd /\ cur' = fd

\* this step is the end of the receive block with the close of lines 490-497
CloseStep == pc = "recv" /\ pc' = "timers"

\* C1: the I/O loop thread never locks mtx while it holds it, so dispatching a
\* FEATURES_REPLY, PACKET_IN or STATS_REPLY never leaves the thread waiting for
\* its own lock, nor failing on it.
C1_NoRelock ==
  ~(mtx = "io" /\ (pc = "blocked" \/ exc[1] = "system_error"))

\* C2: when the running loop reads a FEATURES_REPLY from a connected switch, the
\* switch becomes usable: its DPID is stored, it has a SwitchId in switch_ids()
\* and the loop goes on with the receive pass.
C2_FeaturesReplyMakesUsable ==
  [][\A fd \in FDS :
       (/\ RecvStep(fd) /\ rx[fd] # <<>> /\ sock[fd] = "open"
        /\ rx[fd][1].version = 1 /\ rx[fd][1].length >= 8
        /\ rx[fd][1].type = OFPT_FEATURES_REPLY)
       => /\ pc' = "recv"
          /\ sw'[fd].dpid # NoDpid
          /\ \E k \in switch_ids' : sw_index_to_fd'[k] = fd]_vars

\* C3: the first three messages written to every accepted connection are HELLO,
\* FEATURES_REQUEST and SET_CONFIG with miss_send_len 0xFFFF, in this order;
\* fewer than three have been written only where a send of the handshake failed,
\* and nothing is written to a socket that is not an accepted connection.
C3_HandshakeFirst ==
  \A fd \in FDS :
    LET h == first3[fd]
    IN  /\ fd \notin DOMAIN sw => h = <<>>
        /\ Len(h) >= 1 => h[1].type = OFPT_HELLO
        /\ Len(h) >= 2 => h[2].type = OFPT_FEATURES_REQUEST
        /\ Len(h) >= 3 => h[3].type = OFPT_SET_CONFIG /\ h[3].miss_send_len = 65535
        /\ (fd \in DOMAIN sw /\ Len(h) < 3) => exc = <<"send failed", fd>>

\* a connection has just been accepted and its handshake written
C3_Witness ==
  \E fd \in DOMAIN sw :
    pc = "recv" /\ Len(wire[fd]) = 3 /\ wire[fd] = first3[fd] /\ sock[fd] = "open"

\* C4: a newly assigned SwitchId is the smallest positive integer that no live
\* connection holds.
C4_SmallestUnusedSwitchId ==
  [][\A k \in DOMAIN sw_index_to_fd' \ DOMAIN sw_index_to_fd :
       k = SetMin((1..(MaxConns + 1)) \ DOMAIN sw_index_to_fd)]_vars

\* C5: the SwitchId index is injective, every mapped socket has a context and an
\* open descriptor, and a SwitchId stays with its connection until the close of
\* that connection removes both.
C5_Injective ==
  /\ \A a, b \in DOMAIN sw_index_to_fd :
       sw_index_to_fd[a] = sw_index_to_fd[b] => a = b
  /\ \A fd \in Range(sw_index_to_fd) : fd \in DOMAIN sw /\ sock[fd] # "free"
C5_Stable ==
  \A k \in DOMAIN sw_index_to_fd :
    \/ k \in DOMAIN sw_index_to_fd' /\ sw_index_to_fd'[k] = sw_index_to_fd[k]
    \/ /\ k \notin DOMAIN sw_index_to_fd'
       /\ sw_index_to_fd[k] \notin DOMAIN sw'
       /\ sw_index_to_fd[k] \notin Range(sw_index_to_fd')
C5_SwitchIdInjectiveStable == [](C5_Injective) /\ [][C5_Stable]_vars

\* The connection holding SwitchId 1 has just had a FEATURES_REPLY handled while
\* SwitchId 2 is assigned: SwitchId 1 is only ever assigned to an empty index, so
\* this reply is a repeated one.
C5_Witness ==
  /\ DOMAIN sw_index_to_fd = {1, 2}
  /\ pc = "recv" /\ cur = sw_index_to_fd[1]
  /\ Len(wire[cur]) = 2 /\ wire[cur][2].type = OFPT_GET_CONFIG_REQUEST

\* C6: the step that closes the sessions of this iteration removes the context
\* and the SwitchId of each of them, and leaves the context and the SwitchId of
\* every other switch as they were.
C6_ClosePurges ==
  [][CloseStep =>
       /\ DOMAIN sw' = DOMAIN sw \ closed
       /\ \A fd \in DOMAIN sw' : sw'[fd] = sw[fd]
       /\ switch_ids' = {k \in switch_ids : sw_index_to_fd[k] \notin closed}
       /\ \A k \in switch_ids' : sw_index_to_fd'[k] = sw_index_to_fd[k]
       /\ \A fd \in closed : sock'[fd] = "free"]_vars

\* of two connections, the one with SwitchId 1 has just been closed and purged
\* and the one with SwitchId 2 remains
C6_Witness ==
  /\ pc = "timers" /\ nconn = 2 /\ Cardinality(closed) = 1
  /\ switch_ids = {2} /\ DOMAIN sw = {sw_index_to_fd[2]}
  /\ sw[sw_index_to_fd[2]].dpid # NoDpid

\* C7: reading a header whose version is not 1 or whose length is below 8 puts the
\* session on the close list of the iteration, writes nothing to any socket and
\* runs no handler; the close list is closed at the end of the receive block.
C7_BadHeaderCloses ==
  [][/\ \A fd \in FDS :
          (/\ RecvStep(fd) /\ rx[fd] # <<>>
           /\ (rx[fd][1].version # 1 \/ rx[fd][1].length < 8))
          => /\ fd \in closed'
             /\ wire' = NoWrites
             /\ sw' = sw /\ sw_index_to_fd' = sw_index_to_fd /\ edges_' = edges_
             /\ pc' = "recv" /\ exc' = exc
     /\ CloseStep => \A fd \in closed : fd \notin DOMAIN sw' /\ sock'[fd] = "free"]_vars

\* the last session visited is on the close list although its peer has not closed
\* and nothing is left unread: its header was rejected
C7_Witness ==
  /\ pc = "recv" /\ cur \in closed
  /\ sock[cur] = "open" /\ rx[cur] = <<>>

\* C8: after a send to a switch has failed the I/O loop is still running, and the
\* session of that switch is closed or on the close list.
C8_WriteFailureClosesSession ==
  exc[1] = "send failed" =>
    /\ pc # "aborted"
    /\ exc[2] \in closed \/ exc[2] \notin DOMAIN sw

\* C9: reading an ECHO_REQUEST from a switch writes exactly one message, to that
\* switch: an ECHO_REPLY with the xid and the payload of the request and length
\* 8 + payload length.  Nothing is written only where the peer has gone and the
\* send failed.
C9_EchoReply ==
  [][\A fd \in FDS :
       (/\ RecvStep(fd) /\ rx[fd] # <<>>
        /\ rx[fd][1].version = 1 /\ rx[fd][1].length >= 8
        /\ rx[fd][1].type = OFPT_ECHO_REQUEST)
       => LET m == rx[fd][1]
              out == wire'[fd]
          IN  /\ \A o \in FDS \ {fd} : wire'[o] = <<>>
              /\ IF pc' = "recv"
                 THEN /\ Len(out) = 1
                      /\ out[1].type = OFPT_ECHO_REPLY
                      /\ out[1].xid = m.xid
                      /\ out[1].payload = m.body.payload
                      /\ out[1].length = 8 + Len(m.body.payload)
                 ELSE out = <<>> /\ sock[fd] = "eof"]_vars

\* an ECHO_REPLY that carries a payload has just been written
C9_Witness ==
  \E fd \in FDS :
    /\ pc = "recv" /\ cur = fd
    /\ wire[fd] = <<[type |-> OFPT_ECHO_REPLY, length |-> 10, xid |-> 9,
                     payload |-> <<171, 205>>]>>

\* C10: when the handler of a PACKET_IN that carries an LLDP frame emitted for
\* another connected switch has returned, the topology viewer holds an edge.
C10_LldpRaisesEdge ==
  [][\A fd \in FDS :
       (/\ RecvStep(fd) /\ rx[fd] # <<>>
        /\ rx[fd][1].version = 1 /\ rx[fd][1].length >= 8
        /\ rx[fd][1].type = OFPT_PACKET_IN
        /\ rx[fd][1].body.total_len >= 14
        /\ rx[fd][1].body.data.eth_type = 35020
        /\ \E o \in DOMAIN sw \ {fd} : sw[o].dpid = rx[fd][1].body.data.chassis_id
        /\ pc' = "recv")
       => DOMAIN edges_' # {}]_vars

\* C11: reading an OFPT_ERROR from a switch invokes the on_error callback with the
\* SwitchId of that switch and the type and code of the error, and leaves the
\* session open.
C11_ErrorSurfaced ==
  [][\A fd \in FDS :
       (/\ RecvStep(fd) /\ rx[fd] # <<>>
        /\ rx[fd][1].version = 1 /\ rx[fd][1].length >= 8
        /\ rx[fd][1].type = OFPT_ERROR
        /\ fd \in Range(sw_index_to_fd))
       => /\ fd \notin closed' /\ pc' = "recv"
          /\ Len(cb_error_calls') = Len(cb_error_calls) + 1
          /\ LET call == cb_error_calls'[Len(cb_error_calls')]
                 e == rx[fd][1].body
             IN  /\ sw_index_to_fd[call[1]] = fd
                 /\ call[2] = e.etype /\ call[3] = e.code]_vars

\* this step is on_packet_in(fd) on a frame of 14 bytes or more
PacketInRead(fd) ==
  /\ RecvStep(fd) /\ rx[fd] # <<>>
  /\ rx[fd][1].version = 1 /\ rx[fd][1].length >= 8
  /\ rx[fd][1].type = OFPT_PACKET_IN
  /\ rx[fd][1].body.total_len >= 14

\* on_packet_in(fd) ran on such a frame and returned to the loop
PacketInStep(fd) == PacketInRead(fd) /\ pc' = "recv"

\* C12: for a PACKET_IN of 14 bytes or more the L2 handler sends exactly one
\* message to the switch it came from: a FLOW_MOD ADD (priority 100, idle 30,
\* hard 0, cookie 1, the PACKET_IN's buffer_id, match in_port and dl_dst, output
\* to the learned port) when the destination is known on another port than the
\* ingress, and otherwise a PACKET_OUT with the PACKET_IN's buffer_id, the
\* ingress port as in_port and one OUTPUT to FLOOD.
C12_OneReplyPerPacketIn ==
  [][\A fd \in FDS :
       PacketInStep(fd) =>
         LET pi == rx[fd][1].body
             tbl == sw'[fd].mac2port
             dst == mac_to_key(pi.data.dst)
             known == dst \in DOMAIN tbl /\ tbl[dst] # pi.in_port
         IN  /\ \A g \in FDS \ {fd} : wire'[g] = <<>>
             /\ wire'[fd] =
                  << IF known
                     THEN [type |-> OFPT_FLOW_MOD, command |-> OFPFC_ADD, cookie |-> 1,
                           idle_timeout |-> 30, hard_timeout |-> 0, priority |-> 100,
                           buffer_id |-> pi.buffer_id, match_in_port |-> pi.in_port,
                           match_dl_dst |-> pi.data.dst, out_port |-> tbl[dst]]
                     ELSE [type |-> OFPT_PACKET_OUT, buffer_id |-> pi.buffer_id,
                           in_port |-> pi.in_port, out_port |-> OFPP_FLOOD] >>]_vars

Reversed(e) == LLDPEvent(e.dst_swid, e.dst_port, e.src_swid, e.src_port)

\* the key the claim gives the link of e: the smaller node first, each port with
\* the node it is on
CanonicalKey(e) ==
  LET u == Min(e.src_swid, e.dst_swid)
      v == IF u = e.src_swid THEN e.dst_swid ELSE e.src_swid
      PortOn(n) == IF n = e.src_swid THEN e.src_port ELSE e.dst_port
  IN  <<u, v, PortOn(u), PortOn(v)>>

\* C14: every edge of the viewer has u < v, with u_port the port on u and v_port
\* the port on v; an event and the event of the same link seen from the other
\* end give the same key; feeding an event whose edge is present only sets that
\* edge's last_seen.
C14_CanonicalEdges ==
  /\ \A k \in DOMAIN edges_ : k[1] < k[2] /\ edges_[k] <= now
  /\ \A e \in LldpEvents :
       IF e.src_swid = e.dst_swid THEN handle_lldp(e) = edges_
       ELSE LET m == handle_lldp(e)
                k == CanonicalKey(e)
            IN  /\ DOMAIN m = DOMAIN edges_ \cup {k}
                /\ m[k] = now
                /\ \A j \in DOMAIN m \ {k} : m[j] = edges_[j]
                /\ handle_lldp(Reversed(e)) = m

\* both links are in the map, the first one refreshed after the clock started;
\* the second is only ever reported from its larger end
C14_Witness ==
  /\ <<1, 2, 1, 2>> \in DOMAIN edges_ /\ edges_[<<1, 2, 1, 2>>] > 0
  /\ <<1, 2, 2, 1>> \in DOMAIN edges_

\* C15: snapshot_edges() returns no edge whose last_seen is more than the expiry
\* before the time of the call.
C15_SnapshotFresh ==
  snap.returned => \A e \in snap.edges : now - e.last_seen <= Expiry

\* this step is a pass of the background thread that ran prune_expired
TickStep == running_ /\ next' # next

CycleStep == mon_call'.op = "sample_once"

\* C17: in every sample cycle and for every reported link, the rx and tx rates
\* are never negative; they are 0 at the first observation of the link and 0
\* for a counter that is smaller than the recorded one; and the recorded
\* counters and timestamp become those of the new observation.
C17_NoNegativeDelta ==
  [][CycleStep =>
       \A id \in DOMAIN mon_call'.arg :
         LET ps == mon_call'.arg[id]
             old == LastCounter(id)
             rate == last_rates_'[id]
         IN  /\ last_counters_'[id] = [rx_bytes |-> ps.rx_bytes, tx_bytes |-> ps.tx_bytes,
                                       t |-> now, valid |-> TRUE]
             /\ rate.rx_mbps[1] >= 0 /\ rate.tx_mbps[1] >= 0
             /\ ~old.valid => rate.rx_mbps = <<0, 1>> /\ rate.tx_mbps = <<0, 1>>
             /\ (old.valid /\ ps.rx_bytes < old.rx_bytes) => rate.rx_mbps = <<0, 1>>
             /\ (old.valid /\ ps.tx_bytes < old.tx_bytes) => rate.tx_mbps = <<0, 1>>
             /\ (old.valid /\ ps.rx_bytes > old.rx_bytes /\ now > old.t)
                  => rate.rx_mbps = <<8 * (ps.rx_bytes - old.rx_bytes),
                                      (now - old.t) * 1000000>>]_vars

\* the last cycle saw the rx counter of a link fall and its tx counter grow
C17_Witness ==
  /\ mon_call.op = "sample_once"
  /\ \E id \in DOMAIN mon_call.arg :
       /\ Len(series_[id]) >= 2
       /\ mon_call.arg[id].rx_bytes < 250000
       /\ last_rates_[id].rx_mbps = <<0, 1>>
       /\ last_rates_[id].tx_mbps[1] > 0

\* C18: the series of a link only grows at its end.  A sample cycle appends one
\* Sample to the series of every reported link and none to the others; no other
\* operation changes a series or the last rates; and the last rate of a link is
\* the rate of the last Sample of its series.
C18_AppendOnly ==
  [][/\ \A id \in DOMAIN series_ :
          /\ id \in DOMAIN series_'
          /\ Len(series_'[id]) >= Len(series_[id])
          /\ SubSeq(series_'[id], 1, Len(series_[id])) = series_[id]
     /\ CycleStep =>
          /\ DOMAIN series_' = DOMAIN series_ \cup DOMAIN mon_call'.arg
          /\ \A id \in DOMAIN series_' :
               LET before == IF id \in DOMAIN series_ THEN Len(series_[id]) ELSE 0
               IN  IF id \in DOMAIN mon_call'.arg
                   THEN /\ Len(series_'[id]) = before + 1
                        /\ series_'[id][before + 1].id = id
                        /\ series_'[id][before + 1].t = now
                   ELSE Len(series_'[id]) = before
     /\ ~CycleStep => series_' = series_ /\ last_rates_' = last_rates_
     /\ DOMAIN last_rates_' = DOMAIN series_'
     /\ \A id \in DOMAIN series_' :
          last_rates_'[id] = series_'[id][Len(series_'[id])].rate]_vars

\* export_csv with a cap of one row has written one row of a longer series
C18_Witness ==
  /\ mon_call.op = "export_csv" /\ mon_call.arg = 1
  /\ \E id \in DOMAIN series_ : Len(series_[id]) >= 2 /\ Len(mon_call.ret[id]) = 1

\* C19: every key of the map that poll_port_stats() returns is a LinkId in link
\* form: two different nodes of the network, the smaller first.
C19_PollKeysAreLinks ==
  \A k \in DOMAIN poll_port_stats :
    k[1] < k[2] /\ k[1] \in switch_ids /\ k[2] \in switch_ids

\* this step is a pass of the loop over its two timers that returned
TimersStep == pc = "timers" /\ pc' = "select"

\* C20: once set_lldp_period(p) has changed the period, the loop emits an LLDP
\* round in the passes where more than p has gone by since the last round and in
\* no other; and the same for set_stats_period(q) and the PORT_STATS requests.
C20_TimersUsePeriods ==
  [][TimersStep =>
       /\ lldp_period_ # DefaultLldpPeriod
            => (last_lldp' = now /\ last_lldp # now) <=> (now - last_lldp > lldp_period_)
       /\ stats_period_ # DefaultStatsPeriod
            => (last_stats' = now /\ last_stats # now) <=> (now - last_stats > stats_period_)]_vars

\* C21: every write to a switch socket is made by a thread that holds mtx: a
\* public operation writes only while it owns the lock, the I/O loop writes only
\* with the lock it took (its receive block) or takes in the step, and never
\* while a public operation owns it, so two threads never write at once.
C21_WritesUnderLock ==
  [][wire' # NoWrites =>
       IF pub' # pub THEN mtx = "app"
       ELSE mtx \in {"free", "io"} /\ (mtx = "io" => pc = "recv")]_vars
\* a public operation wrote its second message while the loop was waiting
C21_Witness ==
  /\ mtx = "free" /\ pub = NoPub /\ pc = "select" /\ pending > 0
  /\ \E fd \in FDS : Len(wire[fd]) = 1 /\ wire[fd][1].type = OFPT_BARRIER_REQUEST

\* the flag and the thread handle of the component c
Running(c) == CASE c = "ctl" -> running [] c = "viewer" -> running_ [] OTHER -> mon_running_
\* this step is a call of start() or stop()
LifeStep == Len(log') = Len(log) + 1
\* this step leaves every object as it was
NoEffect ==
  /\ wire' = NoWrites
  /\ UNCHANGED <<pc, mtx, rfds, cur, closed, sw, sw_index_to_fd, exc, sock, rx, first3,
                 pending, nconn, viewerVars, monVars, cb_error_calls, te, act, poll, thr, timerVars, pub,
                 running, loop_thread, listen_fd, stopping, mon_running_, bg_>>

\* C22: for the session manager, the viewer and the monitor: stop() on a stopped
\* component and start() on a running one change nothing, stop() leaves the
\* component stopped (so a second stop() changes nothing), and the start() of
\* start(); stop(); start() leaves the component running with its one thread,
\* when the port is free.
C22_Lifecycle ==
  [][LifeStep =>
       LET call == log'[Len(log')]
           c == call.comp
           IsC(e) == e.comp = c
           mine == SelectSeq(log', IsC)
           n == Len(mine)
           after == CASE c = "ctl" -> running' [] c = "viewer" -> running_'
                      [] OTHER -> mon_running_'
           thread == IF c = "ctl" THEN loop_thread' ELSE bg_'[c]
       IN  /\ call.op = "stop" /\ ~Running(c) => NoEffect
           /\ call.op = "start" /\ Running(c) => NoEffect
           /\ call.op = "stop" => ~after
           /\ (/\ n >= 3 /\ call.op = "start" /\ call.bound
               /\ mine[n - 1].op = "stop" /\ mine[n - 1].ret
               /\ mine[n - 2].op = "start")
              => after /\ thread = "live" /\ pc' # "aborted"]_vars
\* the session manager was started, stopped with a session open, and started again
C22_Witness ==
  /\ Len(log) = 3 /\ \A i \in 1..3 : log[i].comp = "ctl"
  /\ log[1].op = "start" /\ log[2].op = "stop" /\ log[2].ret /\ log[3].op = "start"
  /\ running /\ loop_thread = "live" /\ pc = "select" /\ nconn > 0

\* C23: a call of OFController::stop() returns, whatever the loop thread is
\* doing when it is made (unless the process has ended meanwhile).
C23_StopReturns == stopping ~> (~stopping \/ pc = "aborted")

\* C24: when the listening socket cannot be bound, OFController::start returns
\* false and leaves no thread handle that a later stop() does not join and a
\* later start() cannot assign to.
C24_StartReportsFailure ==
  [][(/\ LifeStep
      /\ log'[Len(log')].comp = "ctl" /\ log'[Len(log')].op = "start"
      /\ ~running /\ loop_thread = "none" /\ ~log'[Len(log')].bound)
     => ~log'[Len(log')].ret /\ loop_thread' = "none"]_vars

\* the simple walks from s to d over the edges of `alive` that have at most
\* MaxSeq nodes, and the canonical LinkIds of a walk
Nbr(alive, n) ==
  {e[2] : e \in {x \in Range(alive) : x[1] = n}}
  \cup {e[1] : e \in {x \in Range(alive) : x[2] = n}}
RECURSIVE Walks(_, _, _)
Walks(alive, s, n) ==
  IF n = 1 THEN {<<s>>}
  ELSE UNION {{Append(w, nb) : nb \in Nbr(alive, w[Len(w)]) \ Range(w)} :
                w \in Walks(alive, s, n - 1)}
SimpleWalks(alive, s, d) ==
  {w \in UNION {Walks(alive, s, n) : n \in 1..MaxSeq} : w[Len(w)] = d}
LinkIdsOf(w) ==
  [i \in 1..(Len(w) - 1) |->
     IF w[i] < w[i + 1] THEN <<w[i], w[i + 1]>> ELSE <<w[i + 1], w[i]>>]
\* the positions in paths of the paths that lead from s to d
PathsOfPair(alive, paths, s, d) ==
  {i \in 1..Len(paths) : \E w \in SimpleWalks(alive, s, d) : paths[i].edges = LinkIdsOf(w)}

\* C25: build_paths_ emits, for each pair the flows need, min(K, number of
\* simple paths of the pair within the depth cap) paths, shorter ones first,
\* whatever it emitted for the other pairs.
C25_KPathsPerPair ==
  te.op = "build_paths_" =>
    \A sd \in need_of(te.arg.flows) :
      LET mine == PathsOfPair(te.arg.alive, te.ret, sd[1], sd[2])
      IN  /\ Cardinality(mine) =
               Min(te.arg.K, Cardinality(SimpleWalks(te.arg.alive, sd[1], sd[2])))
          /\ \A i, j \in mine : i < j => Len(te.ret[i].edges) <= Len(te.ret[j].edges)

\* C26: every path that build_paths_ emits is the sequence of canonical LinkIds
\* of a walk over live edges between the two nodes of a needed pair that visits
\* no node twice, has at most 10 hops and is emitted once; the ids are 100, 101,
\* ... in the order of emission.
C26_PathsWellFormed ==
  te.op = "build_paths_" =>
    /\ \A i \in 1..Len(te.ret) :
         /\ te.ret[i].id = 100 + i - 1
         /\ Len(te.ret[i].edges) <= 10
         /\ \E sd \in need_of(te.arg.flows) :
              i \in PathsOfPair(te.arg.alive, te.ret, sd[1], sd[2])
    /\ \A i, j \in 1..Len(te.ret) : i # j => te.ret[i].edges # te.ret[j].edges
\* the paths of two pairs, the second pair given as <<4, 1>>
C26_Witness ==
  /\ te.op = "build_paths_" /\ te.arg.flows = {<<1, 3>>, <<4, 1>>}
  /\ Len(te.ret) = 3 /\ te.ret[3].id = 102
  /\ te.ret[1].edges = <<<<1, 3>>>> /\ te.ret[3].edges = <<<<1, 3>>, <<3, 4>>>>

\* C27: when solve returns true, the plan has one chosen path for every flow,
\* taken from the flow's candidate path ids, and a beta of 0 or 1 for every
\* link, 1 for every link that is not under SDN control.
C27_PlanShape ==
  (te.op = "solve" /\ te.ret.returned) =>
    LET I == te.arg.I
        out == te.ret.out
    IN  /\ DOMAIN out.chosen_path = DOMAIN I.flows
        /\ \A f \in DOMAIN I.flows :
             out.chosen_path[f] \in Range(I.flows[f].cand_path_ids)
        /\ DOMAIN out.beta = DOMAIN I.G.capacity_mbps
        /\ \A e \in DOMAIN out.beta :
             out.beta[e] \in {0, 1} /\ (~I.G.is_sdn[e] => out.beta[e] = 1)
\* a plan for an instance with two legacy links, one SDN link switched off
C27_Witness ==
  /\ te.op = "solve" /\ te.ret.returned
  /\ ~te.arg.I.G.is_sdn[<<1, 4>>] /\ te.arg.I.G.is_sdn[<<1, 2>>]
  /\ te.ret.out.beta[<<1, 2>>] = 0 /\ te.ret.out.chosen_path = (1 :> 101) @@ (2 :> 101)

\* the demands of the flows whose chosen path traverses e
ChosenLoad(I, out, e) ==
  LET d == [f \in {g \in DOMAIN I.flows : e \in Range(I.paths[out.chosen_path[g]])} |->
              I.flows[f].demand_mbps]
  IN  Sum(d, DOMAIN d)

\* C28: in every plan that solve returns, the load of an SDN link is at most
\* its capacity times its beta, the load of a legacy link is at most its
\* capacity, and the load of a link is the sum of the demands of the flows whose
\* chosen path traverses it.
C28_LoadWithinCapacity ==
  (te.op = "solve" /\ te.ret.returned) =>
    LET I == te.arg.I
        out == te.ret.out
    IN  \A e \in DOMAIN I.G.capacity_mbps :
          /\ out.load_mbps[e] = ChosenLoad(I, out, e)
          /\ out.load_mbps[e] <=
               (IF I.G.is_sdn[e] THEN I.G.capacity_mbps[e] * out.beta[e]
                ELSE I.G.capacity_mbps[e])
\* a plan that loads one path with 800 Mbit/s and switches the other path off
C28_Witness ==
  /\ te.op = "solve" /\ te.ret.returned
  /\ te.ret.out.load_mbps[<<1, 2>>] = 800 /\ te.ret.out.beta[<<1, 2>>] = 1
  /\ te.ret.out.load_mbps[<<1, 4>>] = 0 /\ te.ret.out.beta[<<1, 4>>] = 0
  /\ te.arg.I.G.is_sdn[<<1, 4>>]

\* C29: solve sets optimal exactly when the solver proved optimality; when the
\* solver proved the instance infeasible, or found no solution, optimal is false
\* and solve returns false, with the status text "infeasible" in the first case.
C29_OptimalIffProven ==
  te.op = "solve" =>
    LET m == te.arg.m
        out == te.ret.out
    IN  /\ out.optimal <=> m.isProvenOptimal
        /\ m.isProvenInfeasible =>
             ~out.optimal /\ out.status_text = "infeasible" /\ ~te.ret.returned
        /\ m.bestSolution = NoSol => ~out.optimal /\ ~te.ret.returned

\* C30: on the instance with two flows of 200 Mbit/s and four SDN links, every
\* optimal plan under EWr = 0, LWr = 1 puts the flows on different paths with
\* beta = 1 on the four links, and every optimal plan under EWr = 1, LWr = 0 puts
\* both flows on one path, switches the two links of the other path off and has
\* the objective 200.
C30_EnergyVersusLoad ==
  (/\ te.op = "solve" /\ te.arg.I = Instance({}, 200, 200)
   /\ te.arg.m.isProvenOptimal /\ te.ret.returned) =>
    LET out == te.ret.out
        used == UNION {Range(te.arg.I.paths[out.chosen_path[f]]) : f \in {1, 2}}
    IN  /\ te.arg.w = [ewr |-> 0, lwr |-> 1] =>
             /\ out.chosen_path[1] # out.chosen_path[2]
             /\ \A e \in Square : out.beta[e] = 1
        /\ te.arg.w = [ewr |-> 1, lwr |-> 0] =>
             /\ out.chosen_path[1] = out.chosen_path[2]
             /\ \A e \in Square \ used : out.beta[e] = 0
             /\ out.objective[1] = 200 * out.objective[2]

\* C31: when a PORT_MOD of apply_beta cannot be written, the session of that
\* switch is torn down and apply_beta still makes the calls for the links that
\* remain
C31_FailedPortModIsSkipped ==
  act.state = "thrown" => act.calls = <<>> /\ exc[2] \notin DOMAIN sw

\* the edges of alive that belong to the link id, and the one the maps keep
EdgesOf(alive, id) == {i \in DOMAIN alive : {alive[i].u, alive[i].v} = {id[1], id[2]}}
PortMods(calls) == {i \in DOMAIN calls : calls[i].name = "port_mod"}
\* C32: for every link with a beta decision and a live edge apply_beta calls
\* port_mod once for each endpoint switch, with that switch's port of the link,
\* up = (beta = 1) and speed 10000 when up and 0 when down; a link without a live
\* edge gets no call; and every PORT_MOD it writes is followed on the same
\* socket by a BARRIER_REQUEST before it writes anything else
C32_PortModPerEndpointThenBarrier ==
  [][/\ act.state = "idle" /\ act'.state # "idle" =>
          LET calls == act'.calls
              beta == act'.beta
              alive == act'.alive
              live == {id \in DOMAIN beta : EdgesOf(alive, id) # {}}
          IN  /\ Cardinality(PortMods(calls)) = 2 * Cardinality(live)
              /\ \A id \in live :
                    LET e == alive[SetMax(EdgesOf(alive, id))]
                        Is(c, swid, port) ==
                          /\ c.swid = swid /\ c.port = port
                          /\ c.up = (beta[id] = 1)
                          /\ c.speedMbps = (IF beta[id] = 1 THEN 10000 ELSE 0)
                    IN  /\ Cardinality({i \in PortMods(calls) : Is(calls[i], e.u, e.u_port)}) = 1
                        /\ Cardinality({i \in PortMods(calls) : Is(calls[i], e.v, e.v_port)}) = 1
     /\ \A i \in DOMAIN act'.sent :
          act'.sent[i][2].type = OFPT_PORT_MOD =>
            /\ act'.sent[i][2].config = (IF act'.sent[i][2].advertise = 0 THEN OFPPC_PORT_DOWN ELSE 0)
            /\ act'.sent[i][2].advertise \in {0, 64}
            /\ IF i < Len(act'.sent)
               THEN act'.sent[i + 1] = <<act'.sent[i][1], send_barrier>>
               ELSE \/ act'.state = "thrown"
                    \/ /\ act'.state = "running"
                       /\ pub'.todo = <<<<act'.sent[i][1], send_barrier>>>>]_vars
\* apply_beta returned after it switched a link off and another on at both ends
C32_Witness ==
  /\ act.state = "returned"
  /\ \E i, j \in DOMAIN act.sent :
       /\ act.sent[i][2].type = OFPT_PORT_MOD /\ act.sent[i][2].config = OFPPC_PORT_DOWN
       /\ act.sent[j][2].type = OFPT_PORT_MOD /\ act.sent[j][2].config = 0
       /\ act.sent[i][1] # act.sent[j][1]
  /\ Cardinality({i \in DOMAIN act.sent : act.sent[i][2].type = OFPT_PORT_MOD}) >= 3

\* the series h holds one value throughout
Constant(h) == h # <<>> /\ \A i \in DOMAIN h : h[i] = h[1]
\* |x - y| <= y * n * 2^-51
Within(x, y, n) ==
  LET a == Aligned(x, y)
      d == IF BigLess(a.x, a.y) THEN BigSub(a.y, a.x) ELSE BigSub(a.x, a.y)
  IN  ~BigLess(BigMul(a.y, Big(n)), ShiftLeft(d, 51))
\* C33 as stated: ewma_next returns 0 for an empty series, the element of a
\* series of one element for every alpha, and the constant of a constant series
\* of any length
C33_EwmaOfConstantIsConstant ==
  te.op = "ewma_next" =>
    /\ te.arg.hist = <<>> => te.ret = Zero
    /\ Len(te.arg.hist) = 1 => te.ret = te.arg.hist[1]
    /\ Constant(te.arg.hist) => te.ret = te.arg.hist[1]
\* C33 as amended: ewma_next returns 0 for an empty series and the element of a
\* series of one element for every alpha, and for a constant series of n elements
\* and alpha in [0, 1] the constant to within the rounding of the n - 1 steps, a
\* relative error of at most (n - 1) * 2^-51
C33_EwmaOfConstantUpToRounding ==
  te.op = "ewma_next" =>
    /\ te.arg.hist = <<>> => te.ret = Zero
    /\ Len(te.arg.hist) = 1 => te.ret = te.arg.hist[1]
    /\ Constant(te.arg.hist) =>
         Within(te.ret, te.arg.hist[1], Len(te.arg.hist) - 1)
\* a constant series of the greatest length whose forecast is not the constant
C33_Witness ==
  /\ te.op = "ewma_next" /\ Constant(te.arg.hist) /\ Len(te.arg.hist) = MaxHist
  /\ te.ret # te.arg.hist[1]

\* C34: no handler reads a field at an offset beyond the length of its message:
\* whatever message the loop hands to a handler, the last byte the handler reads
\* lies inside the h.length bytes received
C34_NoReadPastLength ==
  [][\A fd \in FDS :
       (pc = "recv" /\ cur' = fd /\ rx[fd] # <<>> /\ rx'[fd] = <<>> /\ HeaderOk(rx[fd][1])) =>
         \A v \in handler_views(full(rx[fd][1])) :
           ~BigLess(Big(rx[fd][1].length), read_end(v))]_vars

\* C35: while either overload of poll_port_stats waits after it has written its
\* requests, no thread holds mtx for it, so that the I/O loop can store the
\* STATS_REPLYs during the wait
C35_PollWaitsUnlocked == poll.at = "wait" => mtx # "app"

\* C36: while the loop waits in recv for the rest of a message that a silent
\* switch began, it does not hold mtx, so that the other threads and the other
\* sessions go on
C36_SilentSwitchDoesNotStall == pc = "stalled" => mtx = "free"

\* C37: when the loop takes a message of which not all declared bytes arrived,
\* it closes the session and no handler runs: no session state changes and
\* nothing is written
C37_DispatchOnlyComplete ==
  [][\A fd \in FDS :
       (pc = "recv" /\ cur' = fd /\ rx[fd] # <<>> /\ Partial(rx[fd][1]) /\ rx'[fd] = <<>>) =>
         (fd \in closed' /\ sw' = sw /\ sw_index_to_fd' = sw_index_to_fd /\ wire' = NoWrites)]_vars

\* the thread that owns the mutex actor a waits for.  The loop thread locks only
\* the controller's mtx: at lines 425 and 448, at line 499 for the timers, and
\* once more inside the handlers that lock_guard it again.
WaitsFor(a) ==
  IF a = "io"
  THEN IF pc = "blocked" \/ (pc \in {"select", "timers"} /\ mtx # "free")
       THEN Holder("ctl") ELSE "none"
  ELSE IF Wanted(a) = "none" THEN "none" ELSE Holder(Wanted(a))
Actors == Threads \cup {"io"}

\* C38: a viewer or monitor thread that is about to lock the controller's mtx
\* holds no mutex, and no two or three of the threads wait for one another
C38_NoConflictingLockOrder ==
  /\ \A t \in Threads : Wanted(t) = "ctl" => thr[t].held = {}
  /\ \A a, b \in Actors : a # b => ~(WaitsFor(a) = b /\ WaitsFor(b) = a)
  /\ \A a, b, c \in Actors :
       (a # b /\ b # c /\ a # c) => ~(WaitsFor(a) = b /\ WaitsFor(b) = c /\ WaitsFor(c) = a)
\* the loop waits for mtx, which the monitor thread holds, while the viewer
\* thread is inside prune_expired with its own mutex
C38_Witness ==
  /\ WaitsFor("io") = "monitor"
  /\ "viewer" \in thr.viewer.held
  /\ sw_index_to_fd # EmptyMap

\* the session manager's state and the sockets are as before the step, and no
\* write is left to make
Untouched ==
  /\ wire' = NoWrites /\ pub' = NoPub /\ mtx' = mtx
  /\ sw' = sw /\ sw_index_to_fd' = sw_index_to_fd /\ first3' = first3 /\ sock' = sock
  /\ closed' = closed /\ exc' = exc /\ pc' = pc

\* C39: flow_mod, port_mod, barrier, send_lldp, packet_out, poll_port_stats(swid),
\* ports_of and switch_info called with a SwitchId that is not assigned write
\* nothing, leave the session state as it is and return an empty result
C39_UnassignedSwitchIdIsNoOp ==
  [][\A swid \in 1..2 :
       swid \notin DOMAIN sw_index_to_fd =>
         /\ \A o \in {p \in SwidOps : p.swid = swid} : PublicCall(o) => Untouched
         /\ PollOneCall(swid) => (Untouched /\ poll'.at = "done" /\ poll'.ret = EmptyMap)
         /\ Query("ports_of", swid) => (Untouched /\ te'.ret = <<>>)
         /\ Query("switch_info", swid) => (Untouched /\ te'.ret = {})]_vars
\* a switch is connected and has not answered FEATURES_REQUEST; switch_info(1)
\* and poll_port_stats(swid) have returned
C39_Witness ==
  /\ nconn = 1 /\ DOMAIN sw = {1} /\ sw_index_to_fd = EmptyMap /\ sock[1] = "open"
  /\ te.op = "switch_info" /\ te.arg = 1 /\ te.ret = {}
  /\ poll.at = "done" /\ poll.ret = EmptyMap

\* C40: the DPID that on_features_reply stores is the datapath_id of the message,
\* most significant byte first as on the wire, and so are the chassis-ID bytes of
\* the LLDP frames the timers then write for that session
C40_DpidIsWireDatapathId ==
  [][\A fd \in FDS :
       (/\ pc = "recv" /\ cur' = fd /\ rx[fd] # <<>> /\ ~Partial(rx[fd][1])
        /\ rx[fd][1].type = OFPT_FEATURES_REPLY /\ rx[fd][1].length >= SizeofSwitchFeatures
        /\ fd \in DOMAIN sw' /\ sw'[fd].dpid # sw[fd].dpid) =>
         /\ sw'[fd].dpid = rx[fd][1].body.datapath_id
         /\ LldpRound(fd)' # <<>>
         /\ \A i \in 1..Len(LldpRound(fd)') :
              LldpRound(fd)'[i].frame.chassis_id = rx[fd][1].body.datapath_id]_vars

====
